---- MODULE Spec2Model ----
(***************************************************************************)
(* Model of the shopping_cart library (src/src/shopping_cart): the         *)
(* validators, the read-only Catalog and the ShoppingCart state machine.   *)
(*                                                                         *)
(* Python values are records [type, s, n, e, k]: type is the Python type   *)
(* name, s the code points of a str, n the integer payload (int, bool,     *)
(* float, UUID version, Decimal coefficient), e the Decimal exponent and   *)
(* k the Decimal kind ("finite", "NaN", "Infinity").                       *)
(***************************************************************************)
EXTENDS Integers, Sequences, FiniteSets, TLC

VARIABLES catalog, carts, last, nops, caller

vars == <<catalog, carts, last, nops, caller>>

(***************************************************************************)
(* Bounds of the exploration.                                              *)
(***************************************************************************)
\* number of calls made on the library in one run
MaxOps == 5

\* number of returned dicts the caller keeps
MaxCopies == 2

\* the longest str argument of a validator that is built from an alphabet
MaxNameLen == 2

(***************************************************************************)
(* Python values.                                                          *)
(***************************************************************************)
PyVal(t, s, n, e, k) == [type |-> t, s |-> s, n |-> n, e |-> e, k |-> k]

PyStr(s) == PyVal("str", s, 0, 0, "")

PyInt(n) == PyVal("int", <<>>, n, 0, "")

PyBool(b) == PyVal("bool", <<>>, IF b THEN 1 ELSE 0, 0, "")

\* a float with an integral value n (n.0)
PyFloat(n) == PyVal("float", <<>>, n, 0, "")

PyNone == PyVal("NoneType", <<>>, 0, 0, "")

\* Decimal with coefficient coef (signed) and exponent exp: coef * 10^exp
Dec(coef, exp) == PyVal("Decimal", <<>>, coef, exp, "finite")

\* Decimal("NaN"); a signaling NaN and a NaN with a sign or a payload
\* behave alike in every comparison of the program
NaN == PyVal("Decimal", <<>>, 0, 0, "NaN")

\* Decimal("Infinity") (sign 1) and Decimal("-Infinity") (sign -1)
Infinity(sign) == PyVal("Decimal", <<>>, sign, 0, "Infinity")

\* a uuid.UUID with the given version tag and payload n
Uuid(version, n) == PyVal("UUID", <<>>, n, version, "")

\* the Catalog instance of the run, as an argument value
CatalogObj == PyVal("Catalog", <<>>, 0, 0, "")

\* a dict passed where a Catalog is expected
DictObj == PyVal("dict", <<>>, 0, 0, "")

(***************************************************************************)
(* types.py: constants.                                                    *)
(***************************************************************************)
MIN_QUANTITY == 1

MAX_QUANTITY == 10000

MIN_ITEM_NAME_LENGTH == 1

MAX_ITEM_NAME_LENGTH == 100

PRICE_DECIMAL_PLACES == 2

\* Decimal("0.00")
MIN_PRICE == Dec(0, -2)

\* Decimal("999999.99")
MAX_PRICE == Dec(99999999, -2)

(***************************************************************************)
(* Results of a call: the value returned or the exception raised.          *)
(***************************************************************************)
Ok(v) == [err |-> "none", msg |-> "", val |-> v]

Raise(kind, msg) == [err |-> kind, msg |-> msg, val |-> PyNone]

(***************************************************************************)
(* Character classes of the regular expressions (Python re, str patterns). *)
(***************************************************************************)
IsUpper(c) == c \in 65..90

IsLower(c) == c \in 97..122

IsAsciiDigit(c) == c \in 48..57

\* \d on a str pattern: Unicode decimal digits (category Nd); the ASCII
\* digits and the Arabic-Indic, Devanagari and fullwidth blocks stand for it
IsDigitClass(c) == c \in (48..57) \cup (1632..1641) \cup (2406..2415) \cup (65296..65305)

\* \s on a str pattern: Unicode whitespace
IsSpaceClass(c) ==
    c \in (9..13) \cup (28..32) \cup {133, 160, 5760} \cup (8192..8202)
          \cup {8232, 8233, 8239, 8287, 12288}

\* one character of [a-zA-Z0-9\s\-]
IsItemNameChar(c) == IsLower(c) \/ IsUpper(c) \/ IsAsciiDigit(c) \/ IsSpaceClass(c) \/ c = 45

\* _ITEM_NAME_REGEX.match(s) for ^[a-zA-Z0-9\s\-]+$
\* ($ also matches before a final newline, which the class contains anyway)
ITEM_NAME_PATTERN(s) == Len(s) >= 1 /\ \A i \in 1..Len(s) : IsItemNameChar(s[i])

\* ^[A-Z]{3}\d{5}[A-Z]{2}-(A|Q) on the first twelve characters
CustomerIdBody(s) ==
    /\ Len(s) >= 12
    /\ \A i \in 1..3 : IsUpper(s[i])
    /\ \A i \in 4..8 : IsDigitClass(s[i])
    /\ \A i \in 9..10 : IsUpper(s[i])
    /\ s[11] = 45
    /\ s[12] \in {65, 81}

\* _CUSTOMER_ID_REGEX.match(s): $ matches at the end of the string or just
\* before a newline that ends the string
CUSTOMER_ID_PATTERN(s) ==
    /\ CustomerIdBody(s)
    /\ \/ Len(s) = 12
       \/ Len(s) = 13 /\ s[13] = 10

(***************************************************************************)
(* validators.py                                                           *)
(***************************************************************************)
_contains_null_bytes(s) == \E i \in 1..Len(s) : s[i] = 0

_contains_control_characters(s) == \E i \in 1..Len(s) : s[i] < 32 /\ s[i] \notin {10, 9}

validate_customer_id(customer_id) ==
    IF customer_id.type # "str"
    THEN Raise("CustomerIDValidationError", "must be a string")
    ELSE IF _contains_null_bytes(customer_id.s)
    THEN Raise("CustomerIDValidationError", "contains null bytes")
    ELSE IF _contains_control_characters(customer_id.s)
    THEN Raise("CustomerIDValidationError", "contains control characters")
    ELSE IF ~CUSTOMER_ID_PATTERN(customer_id.s)
    THEN Raise("CustomerIDValidationError", "does not match required format")
    ELSE Ok(customer_id)

\* validate_quantity without the upper bound
validate_quantity_no_upper(quantity) ==
    IF quantity.type # "int"
    THEN Raise("QuantityValidationError", "must be an integer")
    ELSE IF quantity.n < MIN_QUANTITY
    THEN Raise("QuantityValidationError", "must be at least")
    ELSE Ok(quantity)

\* validate_quantity without the exclusion of bool: True passes as 1
validate_quantity_accepts_bool(quantity) ==
    IF quantity.type \notin {"int", "bool"}
    THEN Raise("QuantityValidationError", "must be an integer")
    ELSE IF quantity.n < MIN_QUANTITY
    THEN Raise("QuantityValidationError", "must be at least")
    ELSE IF quantity.n > MAX_QUANTITY
    THEN Raise("QuantityValidationError", "cannot exceed")
    ELSE Ok(quantity)

\* isinstance(q, int) holds of int and bool; bool is then excluded
validate_quantity(quantity) ==
    IF quantity.type \notin {"int", "bool"} \/ quantity.type = "bool"
    THEN Raise("QuantityValidationError", "must be an integer")
    ELSE IF quantity.n < MIN_QUANTITY
    THEN Raise("QuantityValidationError", "must be at least")
    ELSE IF quantity.n > MAX_QUANTITY
    THEN Raise("QuantityValidationError", "cannot exceed")
    ELSE Ok(quantity)

\* validate_item_name with the character set checked before the null bytes
\* and the control characters
validate_item_name_charset_first(item_name) ==
    IF item_name.type # "str"
    THEN Raise("ItemNameValidationError", "must be a string")
    ELSE IF Len(item_name.s) >= 1 /\ ~ITEM_NAME_PATTERN(item_name.s)
    THEN Raise("ItemNameValidationError", "contains invalid characters")
    ELSE IF _contains_null_bytes(item_name.s)
    THEN Raise("ItemNameValidationError", "contains null bytes")
    ELSE IF _contains_control_characters(item_name.s)
    THEN Raise("ItemNameValidationError", "contains control characters")
    ELSE IF Len(item_name.s) < MIN_ITEM_NAME_LENGTH
    THEN Raise("ItemNameValidationError", "must be at least")
    ELSE IF Len(item_name.s) > MAX_ITEM_NAME_LENGTH
    THEN Raise("ItemNameValidationError", "cannot exceed")
    ELSE Ok(item_name)

validate_item_name(item_name) ==
    IF item_name.type # "str"
    THEN Raise("ItemNameValidationError", "must be a string")
    ELSE IF _contains_null_bytes(item_name.s)
    THEN Raise("ItemNameValidationError", "contains null bytes")
    ELSE IF _contains_control_characters(item_name.s)
    THEN Raise("ItemNameValidationError", "contains control characters")
    ELSE IF Len(item_name.s) < MIN_ITEM_NAME_LENGTH
    THEN Raise("ItemNameValidationError", "must be at least")
    ELSE IF Len(item_name.s) > MAX_ITEM_NAME_LENGTH
    THEN Raise("ItemNameValidationError", "cannot exceed")
    ELSE IF ~ITEM_NAME_PATTERN(item_name.s)
    THEN Raise("ItemNameValidationError", "contains invalid characters")
    ELSE Ok(item_name)

(***************************************************************************)
(* Exact decimal arithmetic (decimal.Decimal on finite values).  No        *)
(* coefficient of the model comes near the context precision of 28 digits, *)
(* so no operation rounds.                                                 *)
(***************************************************************************)
RECURSIVE Pow10(_)
Pow10(k) == IF k <= 0 THEN 1 ELSE 10 * Pow10(k - 1)

Min(a, b) == IF a <= b THEN a ELSE b

\* a < b on finite Decimals
DecLess(a, b) ==
    LET e == Min(a.e, b.e)
    IN  a.n * Pow10(a.e - e) < b.n * Pow10(b.e - e)

\* a == b on finite Decimals (equality of values, not of representations)
DecEq(a, b) ==
    LET e == Min(a.e, b.e)
    IN  a.n * Pow10(a.e - e) = b.n * Pow10(b.e - e)

\* Decimal * int: coefficients multiply, the exponent is kept
DecMul(d, q) == Dec(d.n * q, d.e)

\* an addition of the coefficients that does not align the exponents
DecAdd_no_align(a, b) == Dec(a.n + b.n, Min(a.e, b.e))

\* Decimal + Decimal: the result carries the smaller exponent
DecAdd(a, b) ==
    LET e == Min(a.e, b.e)
    IN  Dec(a.n * Pow10(a.e - e) + b.n * Pow10(b.e - e), e)

(***************************************************************************)
(* Decimal(text): the text is stripped of the whitespace around it and of  *)
(* every underscore; what is left is a sign, then "inf", "infinity",       *)
(* "nan" or "snan" with a payload of digits (in any case), or digits with  *)
(* at most one point and an exponent "e", sign, digits.  The digits are    *)
(* any Unicode decimal digits.                                             *)
(***************************************************************************)
\* str.isspace on one character
IsWhitespace(c) == IsSpaceClass(c)

RECURSIVE StripLeft(_)
StripLeft(s) ==
    IF s # <<>> /\ IsWhitespace(s[1]) THEN StripLeft(SubSeq(s, 2, Len(s))) ELSE s

RECURSIVE StripRight(_)
StripRight(s) ==
    IF s # <<>> /\ IsWhitespace(s[Len(s)]) THEN StripRight(SubSeq(s, 1, Len(s) - 1)) ELSE s

IsUnderscore(c) == c = 95

NotUnderscore(c) == ~IsUnderscore(c)

\* the text as the parser reads it
NumericText(s) == SelectSeq(StripRight(StripLeft(s)), NotUnderscore)

ToLower(s) == [i \in 1..Len(s) |-> IF IsUpper(s[i]) THEN s[i] + 32 ELSE s[i]]

\* the value of one decimal digit
DigitValue(c) ==
    IF c \in 48..57 THEN c - 48
    ELSE IF c \in 1632..1641 THEN c - 1632
    ELSE IF c \in 2406..2415 THEN c - 2406
    ELSE c - 65296

AllDigits(s) == \A i \in 1..Len(s) : IsDigitClass(s[i])

\* the number written by a sequence of digits
RECURSIVE DigitsValue(_)
DigitsValue(s) ==
    IF s = <<>> THEN 0
    ELSE 10 * DigitsValue(SubSeq(s, 1, Len(s) - 1)) + DigitValue(s[Len(s)])

\* the positions of the characters of a set in s
Positions(s, chars) == {i \in 1..Len(s) : s[i] \in chars}

\* the first position of a character of chars in s, or Len(s) + 1
FirstPosition(s, chars) ==
    IF Positions(s, chars) = {} THEN Len(s) + 1
    ELSE CHOOSE i \in Positions(s, chars) : \A j \in Positions(s, chars) : i <= j

\* "inf", "infinity", "nan" and "snan"
InfText == <<105, 110, 102>>

InfinityText == <<105, 110, 102, 105, 110, 105, 116, 121>>

NanText == <<110, 97, 110>>

SnanText == <<115, 110, 97, 110>>

\* s starts with the text p
StartsWith(s, p) == Len(s) >= Len(p) /\ SubSeq(s, 1, Len(p)) = p

\* the exponent part without its "e": an optional sign and one digit or more
ExponentWellFormed(x) ==
    LET digits == IF x # <<>> /\ x[1] \in {43, 45} THEN SubSeq(x, 2, Len(x)) ELSE x
    IN  digits # <<>> /\ AllDigits(digits)

ExponentValue(x) ==
    IF x[1] = 45 THEN -DigitsValue(SubSeq(x, 2, Len(x)))
    ELSE IF x[1] = 43 THEN DigitsValue(SubSeq(x, 2, Len(x)))
    ELSE DigitsValue(x)

\* the marks "E" and "e" of an exponent, and the point
ExponentMarks == {69, 101}

Point == {46}

\* the parts of a number text: mantissa and exponent around the first
\* exponent mark, integer and fraction digits around the first point
HasExponent(body) == Positions(body, ExponentMarks) # {}

Mantissa(body) == SubSeq(body, 1, FirstPosition(body, ExponentMarks) - 1)

ExponentPart(body) == SubSeq(body, FirstPosition(body, ExponentMarks) + 1, Len(body))

IntPart(m) == SubSeq(m, 1, FirstPosition(m, Point) - 1)

FracPart(m) == SubSeq(m, FirstPosition(m, Point) + 1, Len(m))

\* digits with at most one point and one digit at least, and a well-formed
\* exponent if there is an exponent mark
NumberWellFormed(body) ==
    /\ AllDigits(IntPart(Mantissa(body)))
    /\ AllDigits(FracPart(Mantissa(body)))
    /\ Len(IntPart(Mantissa(body))) + Len(FracPart(Mantissa(body))) >= 1
    /\ HasExponent(body) => ExponentWellFormed(ExponentPart(body))

\* the Decimal of a well-formed number text with the given sign
NumberValue(sign, body) ==
    Dec(sign * DigitsValue(IntPart(Mantissa(body)) \o FracPart(Mantissa(body))),
        (IF HasExponent(body) THEN ExponentValue(ExponentPart(body)) ELSE 0)
            - Len(FracPart(Mantissa(body))))

\* the text after the sign
ParseUnsigned(sign, body) ==
    IF ToLower(body) \in {InfText, InfinityText} THEN Ok(Infinity(sign))
    ELSE IF StartsWith(ToLower(body), NanText) /\ AllDigits(SubSeq(body, 4, Len(body)))
    THEN Ok(NaN)
    ELSE IF StartsWith(ToLower(body), SnanText) /\ AllDigits(SubSeq(body, 5, Len(body)))
    THEN Ok(NaN)
    ELSE IF NumberWellFormed(body) THEN Ok(NumberValue(sign, body))
    ELSE Raise("PriceValidationError", "must be a valid Decimal")

\* Decimal(s) for a str s: the Decimal, or decimal.InvalidOperation
\* (ConversionSyntax), which validate_price turns into PriceValidationError
ParseSigned(u) ==
    IF u # <<>> /\ u[1] \in {43, 45}
    THEN ParseUnsigned(IF u[1] = 45 THEN -1 ELSE 1, SubSeq(u, 2, Len(u)))
    ELSE ParseUnsigned(1, u)

ParseDecimal(s) == ParseSigned(NumericText(s))

\* Decimal(str(price)) for a price that is not a Decimal: an int n prints as
\* "n", a float with an integral value as "n.0", a str as itself; "True",
\* "False", "None" and the texts of a dict, a Catalog and a UUID are not
\* decimal literals
DecimalOfStr(price) ==
    IF price.type = "int" THEN Ok(Dec(price.n, 0))
    ELSE IF price.type = "float" THEN Ok(Dec(price.n * 10, -1))
    ELSE IF price.type = "str" THEN ParseDecimal(price.s)
    ELSE Raise("PriceValidationError", "must be a valid Decimal")

\* check_price without the test of the exponent
check_price_no_precision(d) ==
    IF d.k = "NaN"
    THEN Raise("InvalidOperation", "comparison involving NaN")
    ELSE IF d.k = "Infinity"
    THEN (IF d.n < 0 THEN Raise("PriceValidationError", "cannot be negative")
          ELSE Raise("PriceValidationError", "cannot exceed"))
    ELSE IF DecLess(d, MIN_PRICE)
    THEN Raise("PriceValidationError", "cannot be negative")
    ELSE IF DecLess(MAX_PRICE, d)
    THEN Raise("PriceValidationError", "cannot exceed")
    ELSE Ok(d)

\* the checks of validate_price on the Decimal value; an ordering comparison
\* with a NaN signals decimal.InvalidOperation
check_price(d) ==
    IF d.k = "NaN"
    THEN Raise("InvalidOperation", "comparison involving NaN")
    ELSE IF d.k = "Infinity"
    THEN (IF d.n < 0 THEN Raise("PriceValidationError", "cannot be negative")
          ELSE Raise("PriceValidationError", "cannot exceed"))
    ELSE IF DecLess(d, MIN_PRICE)
    THEN Raise("PriceValidationError", "cannot be negative")
    ELSE IF DecLess(MAX_PRICE, d)
    THEN Raise("PriceValidationError", "cannot exceed")
    ELSE IF d.e < -PRICE_DECIMAL_PLACES
    THEN Raise("PriceValidationError", "cannot have more than")
    ELSE Ok(d)

validate_price(price) ==
    IF price.type # "Decimal"
    THEN (IF DecimalOfStr(price).err # "none" THEN DecimalOfStr(price)
          ELSE check_price(DecimalOfStr(price).val))
    ELSE check_price(price)

(***************************************************************************)
(* catalog.py.  A Catalog's _items is a function from the code points of   *)
(* a name to the price of its CatalogItem (the item's name is its key).    *)
(* The dict given to the constructor is a sequence of <<name, price>>      *)
(* pairs in insertion order.                                               *)
(***************************************************************************)
EmptyMap == [x \in {} |-> 0]

\* CatalogItem.__post_init__: the name is validated, then the price
CatalogItem(name, price) ==
    IF validate_item_name(name).err # "none" THEN validate_item_name(name)
    ELSE validate_price(price)

\* Catalog.__init__: the comprehension stops at the first pair that raises
Catalog(items) ==
    LET bad == {i \in 1..Len(items) : CatalogItem(items[i][1], items[i][2]).err # "none"}
        first == CHOOSE i \in bad : \A j \in bad : i <= j
    IN  IF bad # {}
        THEN [err |-> CatalogItem(items[first][1], items[first][2]).err,
              msg |-> CatalogItem(items[first][1], items[first][2]).msg,
              items |-> EmptyMap]
        ELSE [err |-> "none", msg |-> "",
              items |-> [s \in {items[i][1].s : i \in 1..Len(items)} |->
                          LET i == CHOOSE j \in 1..Len(items) : items[j][1].s = s
                          IN  validate_price(items[i][2]).val]]

has_item(cat, item_name) == item_name.s \in DOMAIN cat

\* get_price that tests the price, not the item, for truth: a stored 0.00
\* comes back as None
get_price_falsy(cat, item_name) ==
    IF item_name.s \in DOMAIN cat /\ cat[item_name.s].n # 0
    THEN cat[item_name.s] ELSE PyNone

\* a CatalogItem is always truthy, so a stored price of 0.00 is returned
get_price(cat, item_name) ==
    IF item_name.s \in DOMAIN cat THEN cat[item_name.s] ELSE PyNone

\* get_all_items that tests the price for truth and so skips a price of 0.00
get_all_items_skip_free(cat) == [s \in {x \in DOMAIN cat : cat[x].n # 0} |-> cat[s]]

get_all_items(cat) == [s \in DOMAIN cat |-> cat[s]]

(***************************************************************************)
(* cart.py.  A ShoppingCart is a record of its four instance attributes;   *)
(* _items is a function from the code points of a name to an int.  The     *)
(* mutators are given as functions from the item mapping and the arguments *)
(* to the exception raised (err, msg) and the item mapping left behind.    *)
(***************************************************************************)
\* a class without the read-only properties cart_id and customer_id
Properties_none == {}

\* the set of guarded fields with the customer id left out
\* a guard that covers every private field of the cart
_IMMUTABLE_FIELDS_all_private == {"_cart_id", "_customer_id", "_catalog", "_items"}

_IMMUTABLE_FIELDS_cart_only == {"_cart_id"}

_IMMUTABLE_FIELDS == {"_cart_id", "_customer_id"}

\* the read-only properties of the class (no setter)
Properties == {"cart_id", "customer_id"}

Raised(r, items) == [err |-> r.err, msg |-> r.msg, items |-> items]

Done(items) == [err |-> "none", msg |-> "", items |-> items]

\* self._items[key] = value
SetItem(items, key, value) ==
    [s \in DOMAIN items \cup {key} |-> IF s = key THEN value ELSE items[s]]

\* del self._items[key]
DelItem(items, key) == [s \in DOMAIN items \ {key} |-> items[s]]

\* add_item that stores the accumulated quantity without validating it again
add_item_no_revalidate(items, cat, item_name, quantity) ==
    LET name == validate_item_name(item_name)
        qty == validate_quantity(quantity)
    IN  IF name.err # "none" THEN Raised(name, items)
        ELSE IF qty.err # "none" THEN Raised(qty, items)
        ELSE IF ~has_item(cat, name.val)
        THEN Raised(Raise("ItemNotInCatalogError", "does not exist in the catalog"), items)
        ELSE IF name.val.s \in DOMAIN items
        THEN Done(SetItem(items, name.val.s, items[name.val.s] + qty.val.n))
        ELSE Done(SetItem(items, name.val.s, qty.val.n))

\* add_item that stores the accumulated quantity and validates it afterwards
add_item_store_then_validate(items, cat, item_name, quantity) ==
    LET name == validate_item_name(item_name)
        qty == validate_quantity(quantity)
    IN  IF name.err # "none" THEN Raised(name, items)
        ELSE IF qty.err # "none" THEN Raised(qty, items)
        ELSE IF ~has_item(cat, name.val)
        THEN Raised(Raise("ItemNotInCatalogError", "does not exist in the catalog"), items)
        ELSE IF name.val.s \in DOMAIN items
        THEN LET stored == SetItem(items, name.val.s, items[name.val.s] + qty.val.n)
                 new_quantity == validate_quantity(PyInt(stored[name.val.s]))
             IN  IF new_quantity.err # "none" THEN Raised(new_quantity, stored)
                 ELSE Done(stored)
        ELSE Done(SetItem(items, name.val.s, qty.val.n))

\* add_item without the catalog membership check
add_item_no_catalog_check(items, cat, item_name, quantity) ==
    LET name == validate_item_name(item_name)
        qty == validate_quantity(quantity)
    IN  IF name.err # "none" THEN Raised(name, items)
        ELSE IF qty.err # "none" THEN Raised(qty, items)
        ELSE IF name.val.s \in DOMAIN items
        THEN LET new_quantity == validate_quantity(PyInt(items[name.val.s] + qty.val.n))
             IN  IF new_quantity.err # "none" THEN Raised(new_quantity, items)
                 ELSE Done(SetItem(items, name.val.s, new_quantity.val.n))
        ELSE Done(SetItem(items, name.val.s, qty.val.n))

\* add_item that replaces the stored quantity instead of accumulating
add_item_overwrite(items, cat, item_name, quantity) ==
    LET name == validate_item_name(item_name)
        qty == validate_quantity(quantity)
    IN  IF name.err # "none" THEN Raised(name, items)
        ELSE IF qty.err # "none" THEN Raised(qty, items)
        ELSE IF ~has_item(cat, name.val)
        THEN Raised(Raise("ItemNotInCatalogError", "does not exist in the catalog"), items)
        ELSE Done(SetItem(items, name.val.s, qty.val.n))

\* add_item that looks the name up in the catalog before it validates the
\* quantity
add_item_catalog_first(items, cat, item_name, quantity) ==
    LET name == validate_item_name(item_name)
        qty == validate_quantity(quantity)
    IN  IF name.err # "none" THEN Raised(name, items)
        ELSE IF ~has_item(cat, name.val)
        THEN Raised(Raise("ItemNotInCatalogError", "does not exist in the catalog"), items)
        ELSE IF qty.err # "none" THEN Raised(qty, items)
        ELSE IF name.val.s \in DOMAIN items
        THEN LET new_quantity == validate_quantity(PyInt(items[name.val.s] + qty.val.n))
             IN  IF new_quantity.err # "none" THEN Raised(new_quantity, items)
                 ELSE Done(SetItem(items, name.val.s, new_quantity.val.n))
        ELSE Done(SetItem(items, name.val.s, qty.val.n))

add_item(items, cat, item_name, quantity) ==
    LET name == validate_item_name(item_name)
        qty == validate_quantity(quantity)
    IN  IF name.err # "none" THEN Raised(name, items)
        ELSE IF qty.err # "none" THEN Raised(qty, items)
        ELSE IF ~has_item(cat, name.val)
        THEN Raised(Raise("ItemNotInCatalogError", "does not exist in the catalog"), items)
        ELSE IF name.val.s \in DOMAIN items
        THEN LET new_quantity == validate_quantity(PyInt(items[name.val.s] + qty.val.n))
             IN  IF new_quantity.err # "none" THEN Raised(new_quantity, items)
                 ELSE Done(SetItem(items, name.val.s, new_quantity.val.n))
        ELSE Done(SetItem(items, name.val.s, qty.val.n))

\* update_item_quantity that inserts a name the cart does not hold
update_item_quantity_upsert(items, item_name, quantity) ==
    LET name == validate_item_name(item_name)
        qty == validate_quantity(quantity)
    IN  IF name.err # "none" THEN Raised(name, items)
        ELSE IF qty.err # "none" THEN Raised(qty, items)
        ELSE Done(SetItem(items, name.val.s, qty.val.n))

update_item_quantity(items, item_name, quantity) ==
    LET name == validate_item_name(item_name)
        qty == validate_quantity(quantity)
    IN  IF name.err # "none" THEN Raised(name, items)
        ELSE IF qty.err # "none" THEN Raised(qty, items)
        ELSE IF name.val.s \notin DOMAIN items
        THEN Raised(Raise("ItemNotInCartError", "is not in the cart"), items)
        ELSE Done(SetItem(items, name.val.s, qty.val.n))

\* remove_item that empties the cart (self._items.clear())
remove_item_clear(items, item_name) ==
    LET name == validate_item_name(item_name)
    IN  IF name.err # "none" THEN Raised(name, items)
        ELSE IF name.val.s \notin DOMAIN items
        THEN Raised(Raise("ItemNotInCartError", "is not in the cart"), items)
        ELSE Done(EmptyMap)

\* remove_item that ignores a name the cart does not hold (dict.pop with a default)
remove_item_noop(items, item_name) ==
    LET name == validate_item_name(item_name)
    IN  IF name.err # "none" THEN Raised(name, items)
        ELSE Done(DelItem(items, name.val.s))

remove_item(items, item_name) ==
    LET name == validate_item_name(item_name)
    IN  IF name.err # "none" THEN Raised(name, items)
        ELSE IF name.val.s \notin DOMAIN items
        THEN Raised(Raise("ItemNotInCartError", "is not in the cart"), items)
        ELSE Done(DelItem(items, name.val.s))

\* deepcopy(self._items): a new dict with the same keys and values
get_items(items) == [s \in DOMAIN items |-> items[s]]

\* the loop of get_total over the keys still to visit; Decimal addition is
\* exact, so the order of the visit does not change the value
RECURSIVE total_loop(_, _, _, _)
total_loop(items, cat, todo, total) ==
    IF todo = {} THEN total
    ELSE LET s == CHOOSE x \in todo : TRUE
             price == get_price(cat, PyStr(s))
         IN  total_loop(items, cat, todo \ {s},
                        IF price # PyNone THEN DecAdd(total, DecMul(price, items[s]))
                        ELSE total)

get_total(items, cat) == total_loop(items, cat, DOMAIN items, Dec(0, -2))

\* __init__ that validates the customer id before it looks at the catalog
ShoppingCart_init_id_first(customer_id, catalog_arg, uuid) ==
    IF validate_customer_id(customer_id).err # "none"
    THEN [err |-> validate_customer_id(customer_id).err,
          msg |-> validate_customer_id(customer_id).msg, cart |-> EmptyMap]
    ELSE IF catalog_arg.type # "Catalog"
    THEN [err |-> "TypeError", msg |-> "catalog must be a Catalog instance", cart |-> EmptyMap]
    ELSE [err |-> "none", msg |-> "",
          cart |-> [_cart_id |-> uuid,
                    _customer_id |-> validate_customer_id(customer_id).val,
                    _catalog |-> catalog_arg,
                    _items |-> EmptyMap]]

\* ShoppingCart.__init__ with the value uuid4() returned
ShoppingCart_init(customer_id, catalog_arg, uuid) ==
    IF catalog_arg.type # "Catalog"
    THEN [err |-> "TypeError", msg |-> "catalog must be a Catalog instance", cart |-> EmptyMap]
    ELSE IF validate_customer_id(customer_id).err # "none"
    THEN [err |-> validate_customer_id(customer_id).err,
          msg |-> validate_customer_id(customer_id).msg, cart |-> EmptyMap]
    ELSE [err |-> "none", msg |-> "",
          cart |-> [_cart_id |-> uuid,
                    _customer_id |-> validate_customer_id(customer_id).val,
                    _catalog |-> catalog_arg,
                    _items |-> EmptyMap]]

\* __setattr__ whose guard also covers the public names
__setattr__guards_public(self, name, value) ==
    IF name \in _IMMUTABLE_FIELDS \/ name \in Properties
    THEN [err |-> "ImmutabilityViolationError", msg |-> "Cannot modify immutable field",
          cart |-> self]
    ELSE [err |-> "none", msg |-> "",
          cart |-> [a \in DOMAIN self \cup {name} |-> IF a = name THEN value ELSE self[a]]]

\* __setattr__ without the guard on the immutable fields
__setattr__unguarded(self, name, value) ==
    IF name \in Properties
    THEN [err |-> "AttributeError", msg |-> "has no setter", cart |-> self]
    ELSE [err |-> "none", msg |-> "",
          cart |-> [a \in DOMAIN self \cup {name} |-> IF a = name THEN value ELSE self[a]]]

\* ShoppingCart.__setattr__: the guard, then object.__setattr__, which
\* refuses a property without a setter and otherwise stores the value
__setattr__(self, name, value) ==
    IF name \in _IMMUTABLE_FIELDS
    THEN [err |-> "ImmutabilityViolationError", msg |-> "Cannot modify immutable field",
          cart |-> self]
    ELSE IF name \in Properties
    THEN [err |-> "AttributeError", msg |-> "has no setter", cart |-> self]
    ELSE [err |-> "none", msg |-> "",
          cart |-> [a \in DOMAIN self \cup {name} |-> IF a = name THEN value ELSE self[a]]]

\* the properties cart_id and customer_id
cart_id(self) == self._cart_id

customer_id(self) == self._customer_id

(***************************************************************************)
(* Inputs of the calls.                                                    *)
(***************************************************************************)
\* "Widget", "Gadget", "Fake", "Bad Name!"
Widget == <<87, 105, 100, 103, 101, 116>>

Gadget == <<71, 97, 100, 103, 101, 116>>

Fake == <<70, 97, 107, 101>>

BadName == <<66, 97, 100, 32, 78, 97, 109, 101, 33>>

\* "ABC12345XY-A", "XYZ99999ZZ-Q", "abc12345xy-a"
CustomerA == <<65, 66, 67, 49, 50, 51, 52, 53, 88, 89, 45, 65>>

CustomerQ == <<88, 89, 90, 57, 57, 57, 57, 57, 90, 90, 45, 81>>

CustomerLower == <<97, 98, 99, 49, 50, 51, 52, 53, 120, 121, 45, 97>>

ItemNameInputs == {PyStr(Widget), PyStr(Gadget), PyStr(Fake), PyStr(BadName), PyInt(123)}

QuantityInputs ==
    {PyInt(0), PyInt(1), PyInt(2), PyInt(9999), PyInt(10000), PyInt(10001), PyBool(TRUE)}

CustomerIdInputs == {PyStr(CustomerA), PyStr(CustomerLower)}

CatalogArgInputs == {CatalogObj, PyNone}

\* the values uuid.uuid4() can return: version-4 identifiers
Uuid4Values == {Uuid(4, 1), Uuid(4, 2)}

\* the dicts a Catalog is built from:
\* {"Widget": Decimal("10.99"), "Gadget": 5},
\* {"Widget": Decimal("10.5"), "Gadget": Decimal("0.00")}
CatalogInputs ==
    {<< <<PyStr(Widget), Dec(1099, -2)>>, <<PyStr(Gadget), PyInt(5)>> >>,
     << <<PyStr(Widget), Dec(105, -1)>>, <<PyStr(Gadget), Dec(0, -2)>> >>}

\* the objects a cart variable of the caller can name
CartRefs == {"cart1"}

\* the attribute names and values of the assignments to an identifier
IdentifierAttrs == {"_cart_id", "_customer_id", "cart_id", "customer_id"}

AttrValues == {Uuid(4, 3), PyStr(CustomerQ)}

(***************************************************************************)
(* The state machine: one Catalog, the carts constructed over it, the      *)
(* last call with its outcome, the number of calls made, and what the      *)
(* caller holds: the dict it built the Catalog from (entries), whether     *)
(* the construction bound a Catalog (has_catalog) and the dicts the        *)
(* accessors returned to it (copies).                                      *)
(***************************************************************************)
\* a1, a2: the arguments; attr: the attribute name of an assignment;
\* err, msg: the exception raised ("none" without one); ret, items: the
\* Decimal or the dict returned
Call(op, self, a1, a2, err, msg, ret, items) ==
    [op |-> op, self |-> self, a1 |-> a1, a2 |-> a2, attr |-> "", err |-> err,
     msg |-> msg, ret |-> ret, items |-> items]

Init ==
    /\ \E items \in CatalogInputs :
          /\ Catalog(items).err = "none"
          /\ catalog = Catalog(items).items
          /\ caller = [entries |-> items, has_catalog |-> TRUE, copies |-> <<>>]
    /\ carts = EmptyMap
    /\ last = Call("Catalog", "", PyNone, PyNone, "none", "", PyNone, EmptyMap)
    /\ nops = 0

\* construction with a time-based (version 1) identifier, uuid.uuid1()
NewCart_uuid1(c, customer, catalog_arg) ==
    /\ nops < MaxOps
    /\ c \notin DOMAIN carts
    /\ \E uuid \in {Uuid(1, 1), Uuid(1, 2)} :
          LET r == ShoppingCart_init(customer, catalog_arg, uuid)
          IN  /\ carts' = IF r.err = "none"
                          THEN [x \in DOMAIN carts \cup {c} |->
                                   IF x = c THEN r.cart ELSE carts[x]]
                          ELSE carts
              /\ last' = Call("ShoppingCart", c, customer, catalog_arg, r.err, r.msg,
                              PyNone, EmptyMap)
    /\ nops' = nops + 1
    /\ UNCHANGED <<catalog, caller>>

\* cart = ShoppingCart(customer_id, catalog_arg)
NewCart(c, customer, catalog_arg) ==
    /\ nops < MaxOps
    /\ c \notin DOMAIN carts
    /\ \E uuid \in Uuid4Values :
          LET r == ShoppingCart_init(customer, catalog_arg, uuid)
          IN  /\ carts' = IF r.err = "none"
                          THEN [x \in DOMAIN carts \cup {c} |->
                                   IF x = c THEN r.cart ELSE carts[x]]
                          ELSE carts
              /\ last' = Call("ShoppingCart", c, customer, catalog_arg, r.err, r.msg,
                              PyNone, EmptyMap)
    /\ nops' = nops + 1
    /\ UNCHANGED <<catalog, caller>>

\* add_item on an item dict that all the carts share (a class attribute)
AddItem_shared(c, item_name, quantity) ==
    /\ nops < MaxOps
    /\ c \in DOMAIN carts
    /\ LET r == add_item(carts[c]._items, catalog, item_name, quantity)
       IN  /\ carts' = [x \in DOMAIN carts |-> [carts[x] EXCEPT !._items = r.items]]
           /\ last' = Call("add_item", c, item_name, quantity, r.err, r.msg, PyNone, EmptyMap)
    /\ nops' = nops + 1
    /\ UNCHANGED <<catalog, caller>>

\* cart.add_item(item_name, quantity)
AddItem(c, item_name, quantity) ==
    /\ nops < MaxOps
    /\ c \in DOMAIN carts
    /\ LET r == add_item(carts[c]._items, catalog, item_name, quantity)
       IN  /\ carts' = [carts EXCEPT ![c]._items = r.items]
           /\ last' = Call("add_item", c, item_name, quantity, r.err, r.msg, PyNone, EmptyMap)
    /\ nops' = nops + 1
    /\ UNCHANGED <<catalog, caller>>

\* cart.update_item_quantity(item_name, quantity)
UpdateItemQuantity(c, item_name, quantity) ==
    /\ nops < MaxOps
    /\ c \in DOMAIN carts
    /\ LET r == update_item_quantity(carts[c]._items, item_name, quantity)
       IN  /\ carts' = [carts EXCEPT ![c]._items = r.items]
           /\ last' = Call("update_item_quantity", c, item_name, quantity, r.err, r.msg,
                           PyNone, EmptyMap)
    /\ nops' = nops + 1
    /\ UNCHANGED <<catalog, caller>>

\* cart.remove_item(item_name)
RemoveItem(c, item_name) ==
    /\ nops < MaxOps
    /\ c \in DOMAIN carts
    /\ LET r == remove_item(carts[c]._items, item_name)
       IN  /\ carts' = [carts EXCEPT ![c]._items = r.items]
           /\ last' = Call("remove_item", c, item_name, PyNone, r.err, r.msg, PyNone, EmptyMap)
    /\ nops' = nops + 1
    /\ UNCHANGED <<catalog, caller>>

\* cart.get_items()
GetItems(c) ==
    /\ nops < MaxOps
    /\ c \in DOMAIN carts
    /\ last' = Call("get_items", c, PyNone, PyNone, "none", "", PyNone,
                    get_items(carts[c]._items))
    /\ nops' = nops + 1
    /\ UNCHANGED <<catalog, carts, caller>>

\* cart.get_total()
GetTotal(c) ==
    /\ nops < MaxOps
    /\ c \in DOMAIN carts
    /\ last' = Call("get_total", c, PyNone, PyNone, "none", "",
                    get_total(carts[c]._items, catalog), EmptyMap)
    /\ nops' = nops + 1
    /\ UNCHANGED <<catalog, carts, caller>>

\* setattr(cart, name, value), the statement cart.<name> = value
SetAttr(c, name, value) ==
    /\ nops < MaxOps
    /\ c \in DOMAIN carts
    /\ LET r == __setattr__(carts[c], name, value)
       IN  /\ carts' = [carts EXCEPT ![c] = r.cart]
           /\ last' = [Call("__setattr__", c, PyNone, value, r.err, r.msg, PyNone, EmptyMap)
                          EXCEPT !.attr = name]
    /\ nops' = nops + 1
    /\ UNCHANGED <<catalog, caller>>

Next ==
    \/ \E c \in CartRefs, customer \in CustomerIdInputs, arg \in CatalogArgInputs :
          NewCart(c, customer, arg)
    \/ \E c \in CartRefs, n \in ItemNameInputs, q \in QuantityInputs : AddItem(c, n, q)
    \/ \E c \in CartRefs, n \in ItemNameInputs, q \in QuantityInputs :
          UpdateItemQuantity(c, n, q)
    \/ \E c \in CartRefs, n \in ItemNameInputs : RemoveItem(c, n)
    \/ \E c \in CartRefs : GetItems(c)
    \/ \E c \in CartRefs : GetTotal(c)
    \/ \E c \in CartRefs, a \in IdentifierAttrs, v \in AttrValues : SetAttr(c, a, v)

Spec == Init /\ [][Next]_vars

(***************************************************************************)
(* Two carts over the one Catalog, with fewer inputs per call.             *)
(***************************************************************************)
CartRefs2 == {"cart1", "cart2"}

ItemNameInputs2 == {PyStr(Widget), PyStr(Fake)}

QuantityInputs2 == {PyInt(0), PyInt(1), PyInt(10000)}

CustomerIdInputs2 == {PyStr(CustomerA), PyStr(CustomerQ)}

NextCarts ==
    \/ \E c \in CartRefs2, customer \in CustomerIdInputs2 : NewCart(c, customer, CatalogObj)
    \/ \E c \in CartRefs2, n \in ItemNameInputs2, q \in QuantityInputs2 : AddItem(c, n, q)
    \/ \E c \in CartRefs2, n \in ItemNameInputs2, q \in QuantityInputs2 :
          UpdateItemQuantity(c, n, q)
    \/ \E c \in CartRefs2, n \in ItemNameInputs2 : RemoveItem(c, n)
    \/ \E c \in CartRefs2 : GetItems(c)
    \/ \E c \in CartRefs2 : GetTotal(c)
    \/ \E c \in CartRefs2, a \in IdentifierAttrs : SetAttr(c, a, Uuid(4, 3))

SpecCarts == Init /\ [][NextCarts]_vars

(***************************************************************************)
(* The dicts the accessors return.  A dict object is a record of the       *)
(* accessor it came from, its identity (ref: "new" for an object of its    *)
(* own, or the cart whose _items dict it is) and, for an object of its     *)
(* own, its content.  The caller keeps the objects and may assign to a key *)
(* or delete a key of any of them.                                         *)
(***************************************************************************)
\* copy.deepcopy that hands back the object it was given
deepcopy_alias(ref, value) == [ref |-> ref, val |-> value]

\* copy.deepcopy(obj) of a dict of immutable values: a new dict object with
\* the content of obj
deepcopy(ref, value) == [ref |-> "new", val |-> value]

\* the content of a dict object the caller holds
CopyValue(cp, cs) == IF cp.ref = "new" THEN cp.val ELSE cs[cp.ref]._items

\* "Hacked"
Hacked == <<72, 97, 99, 107, 101, 100>>

ItemNameInputs3 == {PyStr(Widget), PyStr(Gadget), PyStr(Fake)}

QuantityInputs3 == {PyInt(1), PyInt(10001)}

CopyKeys == {Widget, Hacked}

\* the value the caller writes into a dict from the given accessor:
\* 999 into cart items, Decimal("999.99") into catalog prices
CopyWriteValue(from) == IF from = "get_items" THEN 999 ELSE Dec(99999, -2)

\* items = cart.get_items(), kept by the caller
KeepItems(c) ==
    /\ nops < MaxOps
    /\ c \in DOMAIN carts
    /\ Len(caller.copies) < MaxCopies
    /\ LET obj == deepcopy(c, carts[c]._items)
       IN  /\ caller' = [caller EXCEPT !.copies =
                           Append(@, [from |-> "get_items", ref |-> obj.ref, val |-> obj.val])]
           /\ last' = Call("get_items", c, PyNone, PyNone, "none", "", PyNone,
                           CopyValue(obj, carts))
    /\ nops' = nops + 1
    /\ UNCHANGED <<catalog, carts>>

\* items = catalog.get_all_items(), kept by the caller; the dict given to
\* deepcopy is the new dict the comprehension built
KeepAllItems ==
    /\ nops < MaxOps
    /\ caller.has_catalog
    /\ Len(caller.copies) < MaxCopies
    /\ LET obj == deepcopy("new", get_all_items(catalog))
       IN  /\ caller' = [caller EXCEPT !.copies =
                           Append(@, [from |-> "get_all_items", ref |-> obj.ref,
                                      val |-> obj.val])]
           /\ last' = Call("get_all_items", "", PyNone, PyNone, "none", "", PyNone,
                           CopyValue(obj, carts))
    /\ nops' = nops + 1
    /\ UNCHANGED <<catalog, carts>>

\* catalog.has_item(item_name) for a str argument
HasItemCall(item_name) ==
    /\ nops < MaxOps
    /\ caller.has_catalog
    /\ last' = Call("has_item", "", item_name, PyNone, "none", "",
                    PyBool(has_item(catalog, item_name)), EmptyMap)
    /\ nops' = nops + 1
    /\ UNCHANGED <<catalog, carts, caller>>

\* get_price on a dict that inserts the key it misses (a defaultdict)
GetPriceCall_inserting(item_name) ==
    /\ nops < MaxOps
    /\ caller.has_catalog
    /\ last' = Call("get_price", "", item_name, PyNone, "none", "",
                    get_price(catalog, item_name), EmptyMap)
    /\ catalog' = [s \in DOMAIN catalog \cup {item_name.s} |->
                     IF s \in DOMAIN catalog THEN catalog[s] ELSE Dec(0, -2)]
    /\ nops' = nops + 1
    /\ UNCHANGED <<carts, caller>>

\* catalog.get_price(item_name) for a str argument
GetPriceCall(item_name) ==
    /\ nops < MaxOps
    /\ caller.has_catalog
    /\ last' = Call("get_price", "", item_name, PyNone, "none", "",
                    get_price(catalog, item_name), EmptyMap)
    /\ nops' = nops + 1
    /\ UNCHANGED <<catalog, carts, caller>>

\* the caller's statement copies[i][key] = value
CopySet(i, key) ==
    /\ nops < MaxOps
    /\ i \in 1..Len(caller.copies)
    /\ LET cp == caller.copies[i]
           value == CopyWriteValue(cp.from)
       IN  IF cp.ref = "new"
           THEN /\ caller' = [caller EXCEPT !.copies[i].val = SetItem(@, key, value)]
                /\ carts' = carts
           ELSE /\ carts' = [carts EXCEPT ![cp.ref]._items = SetItem(@, key, value)]
                /\ caller' = caller
    /\ last' = Call("copy_set", "", PyStr(key), PyInt(i), "none", "", PyNone, EmptyMap)
    /\ nops' = nops + 1
    /\ UNCHANGED catalog

\* the caller's statement del copies[i][key], for a key the dict has
CopyDel(i, key) ==
    /\ nops < MaxOps
    /\ i \in 1..Len(caller.copies)
    /\ key \in DOMAIN CopyValue(caller.copies[i], carts)
    /\ LET cp == caller.copies[i]
       IN  IF cp.ref = "new"
           THEN /\ caller' = [caller EXCEPT !.copies[i].val = DelItem(@, key)]
                /\ carts' = carts
           ELSE /\ carts' = [carts EXCEPT ![cp.ref]._items = DelItem(@, key)]
                /\ caller' = caller
    /\ last' = Call("copy_del", "", PyStr(key), PyInt(i), "none", "", PyNone, EmptyMap)
    /\ nops' = nops + 1
    /\ UNCHANGED catalog

NextCopies ==
    \/ \E c \in CartRefs, customer \in CustomerIdInputs : NewCart(c, customer, CatalogObj)
    \/ \E c \in CartRefs, n \in ItemNameInputs3, q \in QuantityInputs3 : AddItem(c, n, q)
    \/ \E c \in CartRefs, n \in ItemNameInputs3, q \in QuantityInputs3 :
          UpdateItemQuantity(c, n, q)
    \/ \E c \in CartRefs, n \in ItemNameInputs3 : RemoveItem(c, n)
    \/ \E c \in CartRefs : GetTotal(c)
    \/ \E c \in CartRefs : KeepItems(c)
    \/ KeepAllItems
    \/ \E n \in ItemNameInputs3 : HasItemCall(n)
    \/ \E n \in ItemNameInputs3 : GetPriceCall(n)
    \/ \E i \in 1..MaxCopies, key \in CopyKeys : CopySet(i, key)
    \/ \E i \in 1..MaxCopies, key \in CopyKeys : CopyDel(i, key)

SpecCopies == Init /\ [][NextCopies]_vars

(***************************************************************************)
(* Catalog construction from the caller's dict, and lookups on the result. *)
(* The caller starts without a Catalog; a construction that raises binds   *)
(* nothing and can be tried again with another dict.                       *)
(***************************************************************************)
\* {}, {"Widget": Decimal("10.99"), "Gadget": 5},
\* {"Widget": Decimal("10.5"), "Gadget": Decimal("0.00")},
\* {"Fake": Decimal("999999.99")},
\* {"Bad Name!": Decimal("10.99")}, {123: Decimal("1")},
\* {"Widget": Decimal("10.99"), "Bad Name!": 5}, {"Bad Name!": Decimal("-1")},
\* {"Widget": Decimal("-1.00")}, {"Widget": Decimal("10.999")},
\* {"Widget": Decimal("1000000.01")}, {"Widget": Decimal("10.99"), "Gadget": None},
\* {"Widget": Decimal("NaN")}
CatalogInputs4 ==
    {<<>>,
     << <<PyStr(Widget), Dec(1099, -2)>>, <<PyStr(Gadget), PyInt(5)>> >>,
     << <<PyStr(Widget), Dec(105, -1)>>, <<PyStr(Gadget), Dec(0, -2)>> >>,
     << <<PyStr(Fake), Dec(99999999, -2)>> >>,
     << <<PyStr(BadName), Dec(1099, -2)>> >>,
     << <<PyInt(123), Dec(1, 0)>> >>,
     << <<PyStr(Widget), Dec(1099, -2)>>, <<PyStr(BadName), PyInt(5)>> >>,
     << <<PyStr(BadName), Dec(-1, 0)>> >>,
     << <<PyStr(Widget), Dec(-100, -2)>> >>,
     << <<PyStr(Widget), Dec(10999, -3)>> >>,
     << <<PyStr(Widget), Dec(100000001, -2)>> >>,
     << <<PyStr(Widget), Dec(1099, -2)>>, <<PyStr(Gadget), PyNone>> >>,
     << <<PyStr(Widget), NaN>> >>}

\* the str arguments of the lookups: "Widget", "Gadget", "Fake",
\* "Bad Name!", ""
LookupNames == {PyStr(Widget), PyStr(Gadget), PyStr(Fake), PyStr(BadName), PyStr(<<>>)}

InitCatalog ==
    /\ catalog = EmptyMap
    /\ caller = [entries |-> <<>>, has_catalog |-> FALSE, copies |-> <<>>]
    /\ carts = EmptyMap
    /\ last = Call("none", "", PyNone, PyNone, "none", "", PyNone, EmptyMap)
    /\ nops = 0

\* catalog = Catalog(items); entries keeps the dict of the call
NewCatalog(items) ==
    /\ nops < MaxOps
    /\ ~caller.has_catalog
    /\ LET r == Catalog(items)
       IN  /\ catalog' = IF r.err = "none" THEN r.items ELSE catalog
           /\ caller' = [caller EXCEPT !.entries = items,
                                       !.has_catalog = (r.err = "none")]
           /\ last' = Call("Catalog", "", PyNone, PyNone, r.err, r.msg, PyNone, r.items)
    /\ nops' = nops + 1
    /\ UNCHANGED carts

NextCatalog ==
    \/ \E items \in CatalogInputs4 : NewCatalog(items)
    \/ \E n \in LookupNames : HasItemCall(n)
    \/ \E n \in LookupNames : GetPriceCall(n)

SpecCatalog == InitCatalog /\ [][NextCatalog]_vars

(***************************************************************************)
(* validate_quantity as a function of its argument: the argument is drawn  *)
(* at the start and the call records its outcome.                          *)
(***************************************************************************)
\* the ints around 0, around MIN_QUANTITY and around MAX_QUANTITY, True and
\* False, 0.0, 1.0, 5.0 and 10000.0, "", "5" and "abc", and None
QuantityInputs5 ==
    {PyInt(n) : n \in (-20..40) \cup (9980..10020)}
        \cup {PyBool(TRUE), PyBool(FALSE)}
        \cup {PyFloat(0), PyFloat(1), PyFloat(5), PyFloat(10000)}
        \cup {PyStr(<<>>), PyStr(<<53>>), PyStr(<<97, 98, 99>>)}
        \cup {PyNone}

InitQuantity ==
    /\ catalog = EmptyMap
    /\ caller = [entries |-> <<>>, has_catalog |-> FALSE, copies |-> <<>>]
    /\ carts = EmptyMap
    /\ \E x \in QuantityInputs5 :
          last = Call("argument", "", x, PyNone, "none", "", PyNone, EmptyMap)
    /\ nops = 0

\* validate_quantity(x) on the argument drawn
ValidateQuantity ==
    /\ nops < MaxOps
    /\ last.op = "argument"
    /\ LET r == validate_quantity(last.a1)
       IN  last' = Call("validate_quantity", "", last.a1, PyNone, r.err, r.msg, r.val,
                        EmptyMap)
    /\ nops' = nops + 1
    /\ UNCHANGED <<catalog, carts, caller>>

NextQuantity == ValidateQuantity

SpecQuantity == InitQuantity /\ [][NextQuantity]_vars

(***************************************************************************)
(* validate_item_name as a function of its argument.                       *)
(***************************************************************************)
\* NUL, tab, line feed, carriage return, space, "!", "-", "5", "A", "z",
\* no-break space, "e" with acute accent
ItemNameAlphabet == {0, 9, 10, 13, 32, 33, 45, 53, 65, 122, 160, 233}

\* the strs over an alphabet of length 0 to n
StringsUpTo(alphabet, n) == UNION {[1..k -> alphabet] : k \in 0..n}

\* c * n
RECURSIVE Repeat(_, _)
Repeat(c, n) == IF n <= 0 THEN <<>> ELSE <<c>> \o Repeat(c, n - 1)

\* every str over the alphabet up to MaxNameLen, "Widget", "Bad Name!",
\* "Widget\r\n", "A" * 100, "A" * 101, "\x00" * 101, "!" * 101, and the
\* non-str values 5, True and None
ItemNameInputs6 ==
    {PyStr(s) : s \in StringsUpTo(ItemNameAlphabet, MaxNameLen)}
        \cup {PyStr(Widget), PyStr(BadName), PyStr(Widget \o <<13, 10>>)}
        \cup {PyStr(Repeat(65, 100)), PyStr(Repeat(65, 101)),
              PyStr(Repeat(0, 101)), PyStr(Repeat(33, 101))}
        \cup {PyInt(5), PyBool(TRUE), PyNone}

\* the state before a validator is applied to the argument x
Argument(x) ==
    /\ catalog = EmptyMap
    /\ caller = [entries |-> <<>>, has_catalog |-> FALSE, copies |-> <<>>]
    /\ carts = EmptyMap
    /\ last = Call("argument", "", x, PyNone, "none", "", PyNone, EmptyMap)
    /\ nops = 0

InitItemName == \E x \in ItemNameInputs6 : Argument(x)

\* validate_item_name(x) on the argument drawn
ValidateItemName ==
    /\ nops < MaxOps
    /\ last.op = "argument"
    /\ LET r == validate_item_name(last.a1)
       IN  last' = Call("validate_item_name", "", last.a1, PyNone, r.err, r.msg, r.val,
                        EmptyMap)
    /\ nops' = nops + 1
    /\ UNCHANGED <<catalog, carts, caller>>

NextItemName == ValidateItemName

SpecItemName == InitItemName /\ [][NextItemName]_vars

(***************************************************************************)
(* validate_customer_id as a function of its argument.                     *)
(***************************************************************************)
\* NUL, tab, line feed, carriage return, space, "-", "5", "A", "B", "Q",
\* "a", ARABIC-INDIC DIGIT FIVE
CustomerIdAlphabet == {0, 9, 10, 13, 32, 45, 53, 65, 66, 81, 97, 1637}

\* s with its i-th character replaced by c
ReplaceAt(s, i, c) == [j \in 1..Len(s) |-> IF j = i THEN c ELSE s[j]]

\* "ABC12345XY-A" and "XYZ99999ZZ-Q"; each with one character replaced,
\* with one character added at the end or at the start, and without its last
\* character; "ABC12345XY-A\n\n"; the strs over the alphabet up to
\* MaxNameLen; the non-str values 5, True and None
CustomerIdInputs7 ==
    {PyStr(CustomerA), PyStr(CustomerQ), PyStr(CustomerLower)}
        \cup {PyStr(ReplaceAt(b, i, c)) :
                 b \in {CustomerA, CustomerQ}, i \in 1..12, c \in CustomerIdAlphabet}
        \cup {PyStr(b \o <<c>>) : b \in {CustomerA, CustomerQ}, c \in CustomerIdAlphabet}
        \cup {PyStr(<<c>> \o b) : b \in {CustomerA, CustomerQ}, c \in CustomerIdAlphabet}
        \cup {PyStr(SubSeq(b, 1, 11)) : b \in {CustomerA, CustomerQ}}
        \cup {PyStr(CustomerA \o <<10, 10>>)}
        \cup {PyStr(s) : s \in StringsUpTo(CustomerIdAlphabet, MaxNameLen)}
        \cup {PyInt(5), PyBool(TRUE), PyNone}

InitCustomerId == \E x \in CustomerIdInputs7 : Argument(x)

\* validate_customer_id(x) on the argument drawn
ValidateCustomerId ==
    /\ nops < MaxOps
    /\ last.op = "argument"
    /\ LET r == validate_customer_id(last.a1)
       IN  last' = Call("validate_customer_id", "", last.a1, PyNone, r.err, r.msg, r.val,
                        EmptyMap)
    /\ nops' = nops + 1
    /\ UNCHANGED <<catalog, carts, caller>>

NextCustomerId == ValidateCustomerId

SpecCustomerId == InitCustomerId /\ [][NextCustomerId]_vars

(***************************************************************************)
(* validate_price as a function of its argument, and the Catalog built     *)
(* from {"Widget": argument}.                                              *)
(***************************************************************************)
\* coefficients around 0 and the powers of ten
PriceCoefficients == (-5..20) \cup {99, 100, 105, 999, 1000, 1099, 9999, 10000, 10001}

\* Decimals n * 10^e with e from -3 to 2 (0.001 ... 1E+2), the Decimals
\* around MAX_PRICE with 0, 1, 2 and 3 fractional digits, NaN and the
\* infinities, and the ints -1, 0, 10, 999999 and 1000000
PriceInputs8 ==
    {Dec(n, e) : n \in PriceCoefficients, e \in -3..2}
        \cup {Dec(99999998, -2), Dec(99999999, -2), Dec(100000000, -2),
              Dec(100000001, -2), Dec(999999990, -3), Dec(999999999, -3),
              Dec(1000000000, -3), Dec(9999999, -1), Dec(10000000, -1),
              Dec(999999, 0), Dec(1000000, 0), Dec(10999, -3)}
        \cup {NaN, Infinity(1), Infinity(-1)}
        \cup {PyInt(-1), PyInt(0), PyInt(10), PyInt(999999), PyInt(1000000)}

InitPrice == \E x \in PriceInputs8 : Argument(x)

\* validate_price(x) on the argument drawn
ValidatePrice ==
    /\ nops < MaxOps
    /\ last.op = "argument"
    /\ LET r == validate_price(last.a1)
       IN  last' = Call("validate_price", "", last.a1, PyNone, r.err, r.msg, r.val,
                        EmptyMap)
    /\ nops' = nops + 1
    /\ UNCHANGED <<catalog, carts, caller>>

\* catalog = Catalog({"Widget": x}) for the same argument
CatalogOfPrice ==
    /\ last.op = "validate_price"
    /\ NewCatalog(<< <<PyStr(Widget), last.a1>> >>)

NextPrice ==
    \/ ValidatePrice
    \/ CatalogOfPrice

SpecPrice == InitPrice /\ [][NextPrice]_vars

(***************************************************************************)
(* The four validators on arguments of every type.                         *)
(***************************************************************************)
\* "NaN", "nan", "sNaN", "inf", "-Infinity", "10.99", " 12.50 ", "1e2",
\* "1_0", "abc"
PriceTexts ==
    {<<78, 97, 78>>, <<110, 97, 110>>, <<115, 78, 97, 78>>, <<105, 110, 102>>,
     <<45, 73, 110, 102, 105, 110, 105, 116, 121>>, <<49, 48, 46, 57, 57>>,
     <<32, 49, 50, 46, 53, 48, 32>>, <<49, 101, 50>>, <<49, 95, 48>>, <<97, 98, 99>>}

\* the arguments of the four validators together, the texts above, and a
\* UUID, a dict and a Catalog
ValidatorInputs9 ==
    ItemNameInputs6 \cup CustomerIdInputs7 \cup QuantityInputs5 \cup PriceInputs8
        \cup {PyStr(s) : s \in PriceTexts}
        \cup {Uuid(4, 1), DictObj, CatalogObj}

InitValidators == \E x \in ValidatorInputs9 : Argument(x)

NextValidators ==
    \/ ValidateCustomerId
    \/ ValidateQuantity
    \/ ValidateItemName
    \/ ValidatePrice

SpecValidators == InitValidators /\ [][NextValidators]_vars

(***************************************************************************)
(* Two carts over the same catalog that receive the same calls: each step  *)
(* makes the call on cart1 and then on cart2; last holds the call with the *)
(* outcome on cart1 and, as twin, the error kind of the outcome on cart2.  *)
(***************************************************************************)
\* the call record with the outcome of the same call on the second cart
TwinCall(op, a1, a2, r1, r2) ==
    [twin |-> r2.err] @@ Call(op, "cart1", a1, a2, r1.err, r1.msg, PyNone, EmptyMap)

\* cart1 = ShoppingCart(customer1, catalog); cart2 = ShoppingCart(customer2, catalog)
NewTwins(customer1, customer2) ==
    /\ nops < MaxOps
    /\ carts = EmptyMap
    /\ \E uuid1, uuid2 \in Uuid4Values :
          LET r1 == ShoppingCart_init(customer1, CatalogObj, uuid1)
              r2 == ShoppingCart_init(customer2, CatalogObj, uuid2)
          IN  /\ uuid1 # uuid2
              /\ r1.err = "none"
              /\ r2.err = "none"
              /\ carts' = [x \in CartRefs2 |-> IF x = "cart1" THEN r1.cart ELSE r2.cart]
              /\ last' = Call("ShoppingCart", "cart2", customer2, CatalogObj, r2.err, r2.msg,
                              PyNone, EmptyMap)
    /\ nops' = nops + 1
    /\ UNCHANGED <<catalog, caller>>

\* the two add_item calls on carts whose _items is one dict (a class
\* attribute): the second call finds what the first one stored
TwinAddItem_shared(item_name, quantity) ==
    /\ nops < MaxOps
    /\ DOMAIN carts = CartRefs2
    /\ LET r1 == add_item(carts["cart1"]._items, catalog, item_name, quantity)
           r2 == add_item(r1.items, catalog, item_name, quantity)
       IN  /\ carts' = [x \in CartRefs2 |-> [carts[x] EXCEPT !._items = r2.items]]
           /\ last' = TwinCall("add_item", item_name, quantity, r1, r2)
    /\ nops' = nops + 1
    /\ UNCHANGED <<catalog, caller>>

\* cart1.add_item(item_name, quantity); cart2.add_item(item_name, quantity)
TwinAddItem(item_name, quantity) ==
    /\ nops < MaxOps
    /\ DOMAIN carts = CartRefs2
    /\ LET r1 == add_item(carts["cart1"]._items, catalog, item_name, quantity)
           r2 == add_item(carts["cart2"]._items, catalog, item_name, quantity)
       IN  /\ carts' = [carts EXCEPT !["cart1"]._items = r1.items,
                                     !["cart2"]._items = r2.items]
           /\ last' = TwinCall("add_item", item_name, quantity, r1, r2)
    /\ nops' = nops + 1
    /\ UNCHANGED <<catalog, caller>>

\* update_item_quantity(item_name, quantity) on cart1, then on cart2
TwinUpdateItemQuantity(item_name, quantity) ==
    /\ nops < MaxOps
    /\ DOMAIN carts = CartRefs2
    /\ LET r1 == update_item_quantity(carts["cart1"]._items, item_name, quantity)
           r2 == update_item_quantity(carts["cart2"]._items, item_name, quantity)
       IN  /\ carts' = [carts EXCEPT !["cart1"]._items = r1.items,
                                     !["cart2"]._items = r2.items]
           /\ last' = TwinCall("update_item_quantity", item_name, quantity, r1, r2)
    /\ nops' = nops + 1
    /\ UNCHANGED <<catalog, caller>>

\* remove_item(item_name) on cart1, then on cart2
TwinRemoveItem(item_name) ==
    /\ nops < MaxOps
    /\ DOMAIN carts = CartRefs2
    /\ LET r1 == remove_item(carts["cart1"]._items, item_name)
           r2 == remove_item(carts["cart2"]._items, item_name)
       IN  /\ carts' = [carts EXCEPT !["cart1"]._items = r1.items,
                                     !["cart2"]._items = r2.items]
           /\ last' = TwinCall("remove_item", item_name, PyNone, r1, r2)
    /\ nops' = nops + 1
    /\ UNCHANGED <<catalog, caller>>

NextTwins ==
    \/ \E customer1, customer2 \in CustomerIdInputs2 : NewTwins(customer1, customer2)
    \/ \E n \in ItemNameInputs3, q \in QuantityInputs2 : TwinAddItem(n, q)
    \/ \E n \in ItemNameInputs3, q \in QuantityInputs2 : TwinUpdateItemQuantity(n, q)
    \/ \E n \in ItemNameInputs3 : TwinRemoveItem(n)

SpecTwins == Init /\ [][NextTwins]_vars

(***************************************************************************)
(* Assignments to any attribute of a cart.  After cart._catalog = value    *)
(* the cart has no Catalog to ask, so add_item is taken only on a cart     *)
(* that still holds it.                                                    *)
(***************************************************************************)
\* the identifiers, the two other private fields and a name the class does
\* not define
AttrNames == IdentifierAttrs \cup {"_items", "_catalog", "note"}

\* the values assigned: dicts to _items ({} and {"Hacked": 999}), a dict and
\* None to _catalog, a UUID and a customer id to the other names
AttrValuesOf(name) ==
    IF name = "_items" THEN {EmptyMap, Hacked :> 999}
    ELSE IF name = "_catalog" THEN {DictObj, PyNone}
    ELSE AttrValues

\* add_item on a cart whose _catalog is the Catalog
AddItemWithCatalog(c, item_name, quantity) ==
    /\ c \in DOMAIN carts
    /\ carts[c]._catalog = CatalogObj
    /\ AddItem(c, item_name, quantity)

NextAttrs ==
    \/ \E c \in CartRefs, customer \in CustomerIdInputs2 : NewCart(c, customer, CatalogObj)
    \/ \E c \in CartRefs, n \in ItemNameInputs3, q \in QuantityInputs3 :
          AddItemWithCatalog(c, n, q)
    \/ \E c \in CartRefs : GetItems(c)
    \/ \E c \in CartRefs, a \in AttrNames : \E v \in AttrValuesOf(a) : SetAttr(c, a, v)

SpecAttrs == Init /\ [][NextAttrs]_vars

(***************************************************************************)
(* The sequence cart.add_item(n, q); cart.remove_item(n) as one step: last  *)
(* holds the add_item call with its outcome and, as twin, the error kind   *)
(* of the remove_item call ("not called" after an add_item that raised).   *)
(***************************************************************************)
AddThenRemove(c, item_name, quantity) ==
    /\ nops < MaxOps
    /\ c \in DOMAIN carts
    /\ LET r1 == add_item(carts[c]._items, catalog, item_name, quantity)
           r2 == IF r1.err = "none" THEN remove_item(r1.items, item_name)
                 ELSE [err |-> "not called", msg |-> "", items |-> r1.items]
       IN  /\ carts' = [carts EXCEPT ![c]._items = r2.items]
           /\ last' = [twin |-> r2.err]
                         @@ Call("add_item; remove_item", c, item_name, quantity, r1.err,
                                 r1.msg, PyNone, EmptyMap)
    /\ nops' = nops + 1
    /\ UNCHANGED <<catalog, caller>>

NextRoundTrip ==
    \/ \E c \in CartRefs, customer \in CustomerIdInputs2 : NewCart(c, customer, CatalogObj)
    \/ \E c \in CartRefs, n \in ItemNameInputs3, q \in QuantityInputs3 : AddItem(c, n, q)
    \/ \E c \in CartRefs, n \in ItemNameInputs3, q \in QuantityInputs3 :
          UpdateItemQuantity(c, n, q)
    \/ \E c \in CartRefs, n \in ItemNameInputs3 : RemoveItem(c, n)
    \/ \E c \in CartRefs, n \in ItemNameInputs3, q \in QuantityInputs : AddThenRemove(c, n, q)

SpecRoundTrip == Init /\ [][NextRoundTrip]_vars

(***************************************************************************)
(* Properties.                                                             *)
(***************************************************************************)
Mutators == {"add_item", "update_item_quantity", "remove_item"}

\* an argument that is an int (not a bool) in [1, 10000]
ValidQuantityArg(q) == q.type = "int" /\ q.n >= 1 /\ q.n <= 10000

\* an argument that validate_item_name accepts
ValidNameArg(n) == validate_item_name(n).err = "none"

\* every key of old other than key is in new with the same value
OthersUnchanged(old, new, key) ==
    \A s \in DOMAIN old \ {key} : s \in DOMAIN new /\ new[s] = old[s]

\* C1: in every reachable state, every key of a cart's item mapping is a
\* valid item name that the catalog has (has_item true, get_price not None)
\* and every value is an integer between 1 and 10000.
C1_CartInvariant ==
    \A c \in DOMAIN carts : \A s \in DOMAIN carts[c]._items :
        /\ validate_item_name(PyStr(s)).err = "none"
        /\ has_item(catalog, PyStr(s))
        /\ get_price(catalog, PyStr(s)) # PyNone
        /\ carts[c]._items[s] >= 1
        /\ carts[c]._items[s] <= 10000

\* a cart holding both catalog items, one at the upper bound, after a call
\* on it failed
C1_Witness ==
    \E c \in DOMAIN carts :
        /\ DOMAIN carts[c]._items = {Widget, Gadget}
        /\ carts[c]._items[Widget] = 10000
        /\ last.op \in Mutators
        /\ last.err # "none"

\* C2: whenever add_item, update_item_quantity or remove_item raises, the
\* cart's item mapping and its total are what they were before the call.
C2_FailureAtomicity ==
    [][(last'.op \in Mutators /\ last'.err # "none")
          => /\ carts' = carts
             /\ \A c \in DOMAIN carts :
                   get_total(carts'[c]._items, catalog') = get_total(carts[c]._items, catalog)]_vars

\* add_item("Fake", ...) was refused on a cart that holds Widget
C2_Witness ==
    \E c \in DOMAIN carts :
        /\ last.op = "add_item"
        /\ last.self = c
        /\ last.a1 = PyStr(Fake)
        /\ last.err = "ItemNotInCatalogError"
        /\ Widget \in DOMAIN carts[c]._items

\* C3: add_item of a valid quantity q for an item already in the cart with
\* quantity e, where e + q > 10000, fails with QuantityValidationError
\* ("cannot exceed") and the stored quantity stays e.
C3_AccumulationOverflow ==
    [][\A c \in DOMAIN carts :
          (/\ last'.op = "add_item"
           /\ last'.self = c
           /\ ValidNameArg(last'.a1)
           /\ last'.a1.s \in DOMAIN carts[c]._items
           /\ ValidQuantityArg(last'.a2)
           /\ carts[c]._items[last'.a1.s] + last'.a2.n > 10000)
          => /\ last'.err = "QuantityValidationError"
             /\ last'.msg = "cannot exceed"
             /\ carts'[c]._items = carts[c]._items]_vars

\* 9999 Widgets, then add_item("Widget", 2) was refused
C3_Witness ==
    \E c \in DOMAIN carts :
        /\ last.op = "add_item"
        /\ last.self = c
        /\ last.a1 = PyStr(Widget)
        /\ last.a2 = PyInt(2)
        /\ last.err = "QuantityValidationError"
        /\ last.msg = "cannot exceed"
        /\ Widget \in DOMAIN carts[c]._items
        /\ carts[c]._items[Widget] = 9999

\* C4: add_item with a well-formed name the catalog does not have and a
\* valid quantity fails with ItemNotInCatalogError and does not insert the
\* name; after any step no cart holds a name the catalog does not have.
C4_CatalogEnforcement ==
    [][/\ \A c \in DOMAIN carts :
             (/\ last'.op = "add_item"
              /\ last'.self = c
              /\ ValidNameArg(last'.a1)
              /\ ValidQuantityArg(last'.a2)
              /\ last'.a1.s \notin DOMAIN catalog)
             => /\ last'.err = "ItemNotInCatalogError"
                /\ last'.a1.s \notin DOMAIN carts'[c]._items
       /\ \A c \in DOMAIN carts' : DOMAIN carts'[c]._items \subseteq DOMAIN catalog']_vars

\* add_item("Fake", 1) was refused and the cart is empty
C4_Witness ==
    \E c \in DOMAIN carts :
        /\ last.op = "add_item"
        /\ last.self = c
        /\ last.a1 = PyStr(Fake)
        /\ last.a2 = PyInt(1)
        /\ last.err = "ItemNotInCatalogError"
        /\ carts[c]._items = EmptyMap

\* C5: add_item(n, q) with a valid catalog name n and a valid quantity q
\* sets cart[n] = q when n is absent, and cart[n] = e + q when n is present
\* with quantity e and e + q <= 10000; every other key is unchanged.
C5_AddItemSuccess ==
    [][\A c \in DOMAIN carts :
          (/\ last'.op = "add_item"
           /\ last'.self = c
           /\ ValidNameArg(last'.a1)
           /\ last'.a1.s \in DOMAIN catalog
           /\ ValidQuantityArg(last'.a2))
          => LET n == last'.a1.s
                 q == last'.a2.n
                 old == carts[c]._items
                 new == carts'[c]._items
             IN  /\ n \notin DOMAIN old
                    => /\ last'.err = "none"
                       /\ DOMAIN new = DOMAIN old \cup {n}
                       /\ new[n] = q
                       /\ OthersUnchanged(old, new, n)
                 /\ (n \in DOMAIN old /\ old[n] + q <= 10000)
                    => /\ last'.err = "none"
                       /\ DOMAIN new = DOMAIN old
                       /\ new[n] = old[n] + q
                       /\ OthersUnchanged(old, new, n)]_vars

\* add_item("Widget", 1) brought 9999 Widgets to 10000 beside a Gadget
C5_Witness ==
    \E c \in DOMAIN carts :
        /\ last.op = "add_item"
        /\ last.self = c
        /\ last.a1 = PyStr(Widget)
        /\ last.a2 = PyInt(1)
        /\ last.err = "none"
        /\ DOMAIN carts[c]._items = {Widget, Gadget}
        /\ carts[c]._items[Widget] = 10000

\* C6: update_item_quantity(n, q) with valid n and q fails with
\* ItemNotInCartError and does not insert n when n is not a key; when n is a
\* key it replaces the stored quantity by exactly q and leaves every other
\* key unchanged.
C6_UpdateItemQuantity ==
    [][\A c \in DOMAIN carts :
          (/\ last'.op = "update_item_quantity"
           /\ last'.self = c
           /\ ValidNameArg(last'.a1)
           /\ ValidQuantityArg(last'.a2))
          => LET n == last'.a1.s
                 q == last'.a2.n
                 old == carts[c]._items
                 new == carts'[c]._items
             IN  /\ n \notin DOMAIN old
                    => /\ last'.err = "ItemNotInCartError"
                       /\ n \notin DOMAIN new
                       /\ new = old
                 /\ n \in DOMAIN old
                    => /\ last'.err = "none"
                       /\ DOMAIN new = DOMAIN old
                       /\ new[n] = q
                       /\ OthersUnchanged(old, new, n)]_vars

\* update_item_quantity("Widget", 2) replaced a stored 9999 beside a Gadget
C6_Witness ==
    \E c \in DOMAIN carts :
        /\ last.op = "update_item_quantity"
        /\ last.self = c
        /\ last.a1 = PyStr(Widget)
        /\ last.a2 = PyInt(2)
        /\ last.err = "none"
        /\ DOMAIN carts[c]._items = {Widget, Gadget}
        /\ carts[c]._items[Widget] = 2
        /\ carts[c]._items[Gadget] = 9999

\* C7: remove_item(n) with a valid name deletes exactly the key n when n is
\* a key, and fails with ItemNotInCartError, changing nothing, when it is
\* not; a remove_item(n) right after a successful remove_item(n) fails.
C7_RemoveItem ==
    [][\A c \in DOMAIN carts :
          (/\ last'.op = "remove_item"
           /\ last'.self = c
           /\ ValidNameArg(last'.a1))
          => LET n == last'.a1.s
                 old == carts[c]._items
                 new == carts'[c]._items
             IN  /\ n \in DOMAIN old
                    => /\ last'.err = "none"
                       /\ DOMAIN new = DOMAIN old \ {n}
                       /\ OthersUnchanged(old, new, n)
                 /\ n \notin DOMAIN old
                    => /\ last'.err = "ItemNotInCartError"
                       /\ new = old
                 /\ (last.op = "remove_item" /\ last.self = c /\ last.err = "none"
                       /\ last.a1 = last'.a1)
                    => last'.err = "ItemNotInCartError"]_vars

\* remove_item("Widget") was refused on a cart that holds only a Gadget
C7_Witness ==
    \E c \in DOMAIN carts :
        /\ last.op = "remove_item"
        /\ last.self = c
        /\ last.a1 = PyStr(Widget)
        /\ last.err = "ItemNotInCartError"
        /\ DOMAIN carts[c]._items = {Gadget}

\* the value of a price in cents (prices carry at most 2 fractional digits)
CentsOf(d) == d.n * Pow10(d.e + 2)

\* the sum over the keys in todo of quantity times price, in cents
RECURSIVE SumCents(_, _, _)
SumCents(items, cat, todo) ==
    IF todo = {} THEN 0
    ELSE LET s == CHOOSE x \in todo : TRUE
         IN  items[s] * CentsOf(get_price(cat, PyStr(s))) + SumCents(items, cat, todo \ {s})

\* C8: in every reachable state get_total() equals the sum over the keys n
\* of cart[n] * get_price(n), it is 0.00 for an empty mapping, and the value
\* a get_total call returned is that sum.
C8_GetTotal ==
    \A c \in DOMAIN carts :
        LET items == carts[c]._items
            sum == Dec(SumCents(items, catalog, DOMAIN items), -2)
        IN  /\ \A s \in DOMAIN items : get_price(catalog, PyStr(s)) # PyNone
            /\ DecEq(get_total(items, catalog), sum)
            /\ items = EmptyMap => get_total(items, catalog) = Dec(0, -2)
            /\ (last.op = "get_total" /\ last.self = c) => DecEq(last.ret, sum)

\* get_total returned 26.98 for 2 Widgets at 10.99 and 1 Gadget at 5
C8_Witness ==
    \E c \in DOMAIN carts :
        /\ last.op = "get_total"
        /\ last.self = c
        /\ DOMAIN carts[c]._items = {Widget, Gadget}
        /\ carts[c]._items[Widget] = 2
        /\ carts[c]._items[Gadget] = 1
        /\ catalog[Gadget] = Dec(5, 0)
        /\ DecEq(last.ret, Dec(2698, -2))

\* C9: the values read through cart_id and customer_id of a constructed
\* cart are the same after every step (mutators, accessors and rejected
\* assignments to the identifiers).
C9_IdentifierStability ==
    [][\A c \in DOMAIN carts :
          /\ c \in DOMAIN carts'
          /\ cart_id(carts'[c]) = cart_id(carts[c])
          /\ customer_id(carts'[c]) = customer_id(carts[c])]_vars

\* an assignment to an identifier was rejected on a cart that holds items
C9_Witness ==
    \E c \in DOMAIN carts :
        /\ last.op = "__setattr__"
        /\ last.self = c
        /\ last.err # "none"
        /\ carts[c]._items # EmptyMap
        /\ cart_id(carts[c]) \in Uuid4Values
        /\ customer_id(carts[c]) = PyStr(CustomerA)

\* C10: an assignment to _cart_id or _customer_id of a constructed cart
\* raises ImmutabilityViolationError and leaves the cart as it was.
C10_PrivateFieldAssignment ==
    [][(last'.op = "__setattr__" /\ last'.attr \in {"_cart_id", "_customer_id"})
          => /\ last'.err = "ImmutabilityViolationError"
             /\ carts' = carts]_vars

\* cart._customer_id = "XYZ99999ZZ-Q" was rejected
C10_Witness ==
    \E c \in DOMAIN carts :
        /\ last.op = "__setattr__"
        /\ last.self = c
        /\ last.attr = "_customer_id"
        /\ last.a2 = PyStr(CustomerQ)
        /\ last.err = "ImmutabilityViolationError"
        /\ carts[c]._customer_id = PyStr(CustomerA)

\* C11 (as stated): every attempt to reassign a cart identifier, through
\* the private fields or through the public attributes, is rejected with
\* ImmutabilityViolationError.
C11_AllRoutesImmutabilityViolation ==
    [][(last'.op = "__setattr__"
          /\ last'.attr \in {"_cart_id", "_customer_id", "cart_id", "customer_id"})
          => last'.err = "ImmutabilityViolationError"]_vars

\* C11 (amended): every attempt to reassign a cart identifier is rejected
\* and leaves the cart as it was; the private fields _cart_id and
\* _customer_id are rejected with ImmutabilityViolationError, the public
\* attributes cart_id and customer_id with AttributeError.
C11_AllRoutesRejected ==
    [][(last'.op = "__setattr__"
          /\ last'.attr \in {"_cart_id", "_customer_id", "cart_id", "customer_id"})
          => /\ last'.err # "none"
             /\ carts' = carts
             /\ last'.attr \in {"_cart_id", "_customer_id"}
                   <=> last'.err = "ImmutabilityViolationError"
             /\ last'.attr \in {"cart_id", "customer_id"}
                   <=> last'.err = "AttributeError"]_vars

\* cart.customer_id = "XYZ99999ZZ-Q" was rejected with AttributeError
C11_Witness ==
    \E c \in DOMAIN carts :
        /\ last.op = "__setattr__"
        /\ last.self = c
        /\ last.attr = "customer_id"
        /\ last.a2 = PyStr(CustomerQ)
        /\ last.err = "AttributeError"
        /\ customer_id(carts[c]) = PyStr(CustomerA)

\* C12: an assignment through the public property cart_id or customer_id
\* fails with AttributeError, and the identifiers read afterwards equal the
\* ones read before.
C12_PropertyAssignment ==
    [][\A c \in DOMAIN carts :
          (/\ last'.op = "__setattr__"
           /\ last'.self = c
           /\ last'.attr \in {"cart_id", "customer_id"})
          => /\ last'.err = "AttributeError"
             /\ c \in DOMAIN carts'
             /\ cart_id(carts'[c]) = cart_id(carts[c])
             /\ customer_id(carts'[c]) = customer_id(carts[c])]_vars

\* cart.cart_id = uuid4() was rejected with AttributeError
C12_Witness ==
    \E c \in DOMAIN carts :
        /\ last.op = "__setattr__"
        /\ last.self = c
        /\ last.attr = "cart_id"
        /\ last.a2 = Uuid(4, 3)
        /\ last.err = "AttributeError"
        /\ cart_id(carts[c]) \in Uuid4Values

\* C13: ShoppingCart(customer_id, catalog) fails with TypeError when catalog
\* is not a Catalog (also when customer_id is invalid), with
\* CustomerIDValidationError when catalog is a Catalog and customer_id is
\* invalid, and otherwise yields a cart with that customer_id, an empty item
\* mapping and a total of 0.00.
C13_CartConstruction ==
    [][last'.op = "ShoppingCart"
          => LET c == last'.self
                 customer == last'.a1
                 arg == last'.a2
             IN  /\ arg.type # "Catalog"
                    => /\ last'.err = "TypeError"
                       /\ carts' = carts
                 /\ (arg.type = "Catalog" /\ validate_customer_id(customer).err # "none")
                    => /\ last'.err = "CustomerIDValidationError"
                       /\ carts' = carts
                 /\ (arg.type = "Catalog" /\ validate_customer_id(customer).err = "none")
                    => /\ last'.err = "none"
                       /\ c \in DOMAIN carts'
                       /\ customer_id(carts'[c]) = customer
                       /\ carts'[c]._items = EmptyMap
                       /\ get_total(carts'[c]._items, catalog') = Dec(0, -2)]_vars

\* ShoppingCart("abc12345xy-a", None) failed with TypeError
C13_Witness ==
    /\ last.op = "ShoppingCart"
    /\ last.a1 = PyStr(CustomerLower)
    /\ last.a2 = PyNone
    /\ last.err = "TypeError"
    /\ carts = EmptyMap

\* C14: with two carts over one Catalog, a call on one cart leaves the
\* other cart's item mapping, total and identifiers unchanged.
C14_CartIsolation ==
    [][\A c \in DOMAIN carts :
          last'.self # c
          => /\ c \in DOMAIN carts'
             /\ carts'[c]._items = carts[c]._items
             /\ get_total(carts'[c]._items, catalog') = get_total(carts[c]._items, catalog)
             /\ cart_id(carts'[c]) = cart_id(carts[c])
             /\ customer_id(carts'[c]) = customer_id(carts[c])]_vars

\* two carts of the same customer, cart1 with 1 Widget, after
\* cart2.add_item("Widget", 10000)
C14_Witness ==
    /\ DOMAIN carts = {"cart1", "cart2"}
    /\ customer_id(carts["cart1"]) = customer_id(carts["cart2"])
    /\ DOMAIN carts["cart1"]._items = {Widget}
    /\ carts["cart1"]._items[Widget] = 1
    /\ DOMAIN carts["cart2"]._items = {Widget}
    /\ carts["cart2"]._items[Widget] = 10000
    /\ last.op = "add_item"
    /\ last.self = "cart2"
    /\ last.err = "none"

CopyMutations == {"copy_set", "copy_del"}

\* C15: get_items() returns a mapping equal to the cart's item mapping, and
\* a later change of a returned mapping (a value set, a key added or
\* deleted) changes neither what get_items() and get_total() return nor any
\* other mapping get_items() returned.
C15_GetItemsCopyIsolation ==
    [][/\ (last'.op = "get_items" /\ Len(caller'.copies) = Len(caller.copies) + 1)
          => LET c == last'.self
                 obj == caller'.copies[Len(caller'.copies)]
             IN  /\ last'.items = carts[c]._items
                 /\ CopyValue(obj, carts') = carts[c]._items
       /\ (last'.op \in CopyMutations /\ caller.copies[last'.a2.n].from = "get_items")
          => /\ \A c \in DOMAIN carts :
                   /\ c \in DOMAIN carts'
                   /\ get_items(carts'[c]._items) = get_items(carts[c]._items)
                   /\ get_total(carts'[c]._items, catalog')
                         = get_total(carts[c]._items, catalog)
             /\ \A j \in 1..Len(caller.copies) :
                   j # last'.a2.n
                   => CopyValue(caller'.copies[j], carts')
                         = CopyValue(caller.copies[j], carts)]_vars

\* two dicts from get_items() of a cart with 1 Widget; the first was given
\* Widget = 999, the second and the cart still have 1
C15_Witness ==
    /\ "cart1" \in DOMAIN carts
    /\ Len(caller.copies) = 2
    /\ caller.copies[1].from = "get_items"
    /\ caller.copies[2].from = "get_items"
    /\ last.op = "copy_set"
    /\ last.a2 = PyInt(1)
    /\ DOMAIN carts["cart1"]._items = {Widget}
    /\ carts["cart1"]._items[Widget] = 1
    /\ CopyValue(caller.copies[1], carts)[Widget] = 999
    /\ CopyValue(caller.copies[2], carts)[Widget] = 1

\* the value in cents of a price as the caller supplied it (an int or a
\* Decimal with at most 2 fractional digits)
SuppliedCents(p) == IF p.type = "int" THEN p.n * 100 ELSE CentsOf(p)

\* C16: get_all_items() returns a mapping with the keys the Catalog was
\* built from and, for each key, a price equal to the one supplied; a later
\* change of a returned mapping changes neither what has_item, get_price
\* and get_all_items return nor any other returned mapping.
C16_GetAllItemsRoundTrip ==
    [][/\ last'.op = "get_all_items"
          => LET ret == last'.items
                 entries == caller.entries
                 obj == caller'.copies[Len(caller'.copies)]
             IN  /\ DOMAIN ret = {entries[i][1].s : i \in 1..Len(entries)}
                 /\ \A i \in 1..Len(entries) :
                       /\ ret[entries[i][1].s].type = "Decimal"
                       /\ CentsOf(ret[entries[i][1].s]) = SuppliedCents(entries[i][2])
                 /\ CopyValue(obj, carts') = ret
       /\ (last'.op \in CopyMutations /\ caller.copies[last'.a2.n].from = "get_all_items")
          => /\ \A n \in ItemNameInputs3 \cup {PyStr(Hacked)} :
                   /\ has_item(catalog', n) = has_item(catalog, n)
                   /\ get_price(catalog', n) = get_price(catalog, n)
             /\ get_all_items(catalog') = get_all_items(catalog)
             /\ \A j \in 1..Len(caller.copies) :
                   j # last'.a2.n
                   => CopyValue(caller'.copies[j], carts')
                         = CopyValue(caller.copies[j], carts)]_vars

\* two dicts from get_all_items() of the catalog with a Gadget at 0.00; the
\* first was given Hacked and Widget = 999.99, the second and the catalog
\* still have Widget at 10.5 and no Hacked
C16_Witness ==
    /\ Len(caller.copies) = 2
    /\ caller.copies[1].from = "get_all_items"
    /\ caller.copies[2].from = "get_all_items"
    /\ last.op = "copy_set"
    /\ last.a2 = PyInt(1)
    /\ DOMAIN caller.copies[1].val = {Widget, Gadget, Hacked}
    /\ caller.copies[1].val[Widget] = Dec(99999, -2)
    /\ caller.copies[2].val = (Widget :> Dec(105, -1)) @@ (Gadget :> Dec(0, -2))
    /\ ~has_item(catalog, PyStr(Hacked))
    /\ get_price(catalog, PyStr(Widget)) = Dec(105, -1)

\* C17: no Catalog method call, no cart operation (construction, mutators,
\* accessors, successful or failing) and no change of a returned dict
\* changes the catalog's set of names or any price.
C17_CatalogImmutable ==
    [][/\ DOMAIN catalog' = DOMAIN catalog
       /\ \A s \in DOMAIN catalog : catalog'[s] = catalog[s]]_vars

\* get_price("Fake") returned None after a cart took items and the caller
\* changed a dict from get_all_items()
C17_Witness ==
    /\ last.op = "get_price"
    /\ last.a1 = PyStr(Fake)
    /\ last.ret = PyNone
    /\ "cart1" \in DOMAIN carts
    /\ carts["cart1"]._items # EmptyMap
    /\ Len(caller.copies) >= 1
    /\ caller.copies[1].from = "get_all_items"
    /\ Hacked \in DOMAIN caller.copies[1].val
    /\ DOMAIN catalog = {Widget, Gadget}

\* C18: for every name of the dict a Catalog was built from, has_item is
\* True and get_price returns the stored price (a stored 0.00 comes back as
\* 0.00, never None); for every other str, has_item is False and get_price
\* returns None; neither raises.
C18_CatalogLookup ==
    [][last'.op \in {"has_item", "get_price"}
       => LET entries == caller.entries
              built == {i \in 1..Len(entries) : entries[i][1] = last'.a1}
          IN  /\ last'.err = "none"
              /\ (built # {} /\ last'.op = "has_item") => last'.ret = PyBool(TRUE)
              /\ (built # {} /\ last'.op = "get_price")
                 => \A i \in built :
                       /\ last'.ret.type = "Decimal"
                       /\ IF entries[i][2].type = "Decimal"
                          THEN last'.ret = entries[i][2]
                          ELSE CentsOf(last'.ret) = SuppliedCents(entries[i][2])
              /\ (built = {} /\ last'.op = "has_item") => last'.ret = PyBool(FALSE)
              /\ (built = {} /\ last'.op = "get_price") => last'.ret = PyNone]_vars

\* get_price("Gadget") returned Decimal("0.00") from a Catalog built with
\* Gadget at 0.00
C18_Witness ==
    /\ caller.has_catalog
    /\ last.op = "get_price"
    /\ last.a1 = PyStr(Gadget)
    /\ last.ret = Dec(0, -2)
    /\ \E i \in 1..Len(caller.entries) :
          caller.entries[i] = <<PyStr(Gadget), Dec(0, -2)>>

InvalidNames(items) ==
    {i \in 1..Len(items) : validate_item_name(items[i][1]).err # "none"}

InvalidPrices(items) ==
    {i \in 1..Len(items) : validate_price(items[i][2]).err # "none"}

\* C19: Catalog(items) with a pair whose name or price is invalid raises
\* ItemNameValidationError or PriceValidationError (the one of an invalid
\* name if only names are invalid, the one of an invalid price if only
\* prices are) and binds no Catalog; with every pair valid it succeeds.
C19_AllOrNothing ==
    [][last'.op = "Catalog"
       => LET items == caller'.entries
          IN  IF InvalidNames(items) \cup InvalidPrices(items) # {}
              THEN /\ last'.err \in {"ItemNameValidationError", "PriceValidationError"}
                   /\ InvalidPrices(items) = {} => last'.err = "ItemNameValidationError"
                   /\ InvalidNames(items) = {} => last'.err = "PriceValidationError"
                   /\ ~caller'.has_catalog
                   /\ catalog' = EmptyMap
              ELSE /\ last'.err = "none"
                   /\ caller'.has_catalog
                   /\ DOMAIN catalog' = {items[i][1].s : i \in 1..Len(items)}]_vars

\* C20: validate_quantity(x) returns x exactly when x is an int that is
\* not a bool with 1 <= x <= 10000; in every other case (0, a negative,
\* 10001, True, False, a str, a float, None) it raises
\* QuantityValidationError.
C20_ValidateQuantity ==
    last.op = "validate_quantity"
    => LET x == last.a1
       IN  IF x.type = "int" /\ 1 <= x.n /\ x.n <= 10000
           THEN last.err = "none" /\ last.ret = x
           ELSE last.err = "QuantityValidationError"

\* validate_quantity(10000) returned 10000
C20_Witness ==
    /\ last.op = "validate_quantity"
    /\ last.a1 = PyInt(10000)
    /\ last.err = "none"
    /\ last.ret = PyInt(10000)

\* an ASCII letter, an ASCII digit, a space (U+0020) or a hyphen
IsPlainNameChar(c) == c \in (65..90) \cup (97..122) \cup (48..57) \cup {32, 45}

\* C21: validate_item_name(x) returns x only if x is a str of length 1 to
\* 100 whose characters are all ASCII letters, ASCII digits, spaces or
\* hyphens; every other argument (with a tab, a newline, punctuation, a
\* non-ASCII character) raises ItemNameValidationError.
C21_ValidateItemName ==
    last.op = "validate_item_name"
    => LET x == last.a1
           plain == /\ x.type = "str"
                    /\ Len(x.s) \in 1..100
                    /\ \A i \in 1..Len(x.s) : IsPlainNameChar(x.s[i])
       IN  /\ last.err = "none" => (plain /\ last.ret = x)
           /\ ~plain => last.err = "ItemNameValidationError"

\* the first check of validate_item_name that the argument x fails, in the
\* order type, null byte, control character, minimum length, maximum
\* length, character set ("" if it fails none)
FirstFailingCheck(x) ==
    IF x.type # "str" THEN "must be a string"
    ELSE IF \E i \in 1..Len(x.s) : x.s[i] = 0 THEN "contains null bytes"
    ELSE IF \E i \in 1..Len(x.s) : x.s[i] \in (1..8) \cup (11..31)
    THEN "contains control characters"
    ELSE IF Len(x.s) < 1 THEN "must be at least"
    ELSE IF Len(x.s) > 100 THEN "cannot exceed"
    ELSE IF \E i \in 1..Len(x.s) : ~IsPlainNameChar(x.s[i])
    THEN "contains invalid characters"
    ELSE ""

\* C27: when validate_item_name rejects an argument, the failure it reports
\* is that of the first failing check in the order type, null byte, control
\* character, minimum length, maximum length, character set: a name ending
\* in CR LF is reported for its control characters, a name with a null byte
\* for its null bytes whatever its length and other characters.
C27_ItemNameCheckOrder ==
    (last.op = "validate_item_name" /\ last.err # "none")
    => /\ last.err = "ItemNameValidationError"
       /\ last.msg = FirstFailingCheck(last.a1)

\* "Widget\r\n" was rejected for its control characters
C27_Witness ==
    /\ last.op = "validate_item_name"
    /\ last.a1 = PyStr(Widget \o <<13, 10>>)
    /\ last.err = "ItemNameValidationError"
    /\ last.msg = "contains control characters"

\* C22: validate_customer_id(x) returns x exactly when x is a str of
\* exactly 12 characters: 3 of A-Z, 5 of 0-9, 2 of A-Z, a hyphen and "A" or
\* "Q"; every other argument (not a str, or a str with a missing, different
\* or extra character, a trailing newline included) raises
\* CustomerIDValidationError.
C22_ValidateCustomerId ==
    last.op = "validate_customer_id"
    => LET x == last.a1
           wellformed == /\ x.type = "str"
                         /\ Len(x.s) = 12
                         /\ \A i \in {1, 2, 3, 9, 10} : x.s[i] \in 65..90
                         /\ \A i \in 4..8 : x.s[i] \in 48..57
                         /\ x.s[11] = 45
                         /\ x.s[12] \in {65, 81}
       IN  IF wellformed
           THEN last.err = "none" /\ last.ret = x
           ELSE last.err = "CustomerIDValidationError"

\* the value of a finite Decimal or an int in thousandths
Thousandths(x) == IF x.type = "int" THEN x.n * 1000 ELSE x.n * Pow10(x.e + 3)

\* 0.00 <= p <= 999999.99 and at most 2 fractional digits
PriceInBounds(x) ==
    /\ x.type = "int" \/ (x.type = "Decimal" /\ x.k = "finite" /\ x.e >= -2)
    /\ 0 <= Thousandths(x)
    /\ Thousandths(x) <= 999999990

\* C23: validate_price accepts a decimal value p exactly when
\* 0.00 <= p <= 999999.99 and p has at most 2 fractional digits; a negative
\* value, a value above 999999.99 and a value with 3 or more fractional
\* digits raise PriceValidationError; so every price stored in a Catalog is
\* in [0.00, 999999.99] with at most 2 fractional digits.
C23_ValidatePriceBounds ==
    /\ last.op = "validate_price"
       => LET x == last.a1
              finite == x.type = "int" \/ x.k = "finite"
          IN  /\ (last.err = "none") <=> PriceInBounds(x)
              /\ last.err = "none"
                 => /\ last.ret.type = "Decimal"
                    /\ Thousandths(last.ret) = Thousandths(x)
                    /\ x.type = "Decimal" => last.ret = x
              /\ (finite /\ ~PriceInBounds(x)) => last.err = "PriceValidationError"
    /\ \A s \in DOMAIN catalog : PriceInBounds(catalog[s]) /\ catalog[s].type = "Decimal"

\* validate_price accepted Decimal("999999.99") and the Catalog stores it
C23_Witness ==
    /\ last.op = "Catalog"
    /\ last.err = "none"
    /\ DOMAIN catalog = {Widget}
    /\ catalog[Widget] = Dec(99999999, -2)

\* the error kind of each validator
OwnErrorKind ==
    [validate_customer_id |-> "CustomerIDValidationError",
     validate_quantity |-> "QuantityValidationError",
     validate_item_name |-> "ItemNameValidationError",
     validate_price |-> "PriceValidationError"]

\* C24: each validator, on every argument, returns a value or raises its
\* own error kind and no other; validate_price on NaN, on an infinity and
\* on a value that is not convertible to a Decimal raises
\* PriceValidationError.
C24_ValidatorsTotal ==
    last.op \in DOMAIN OwnErrorKind
    => /\ last.err \in {"none", OwnErrorKind[last.op]}
       /\ last.err = "none" => last.ret # PyNone
       /\ (last.op = "validate_price"
           /\ \/ last.a1.type = "Decimal" /\ last.a1.k \in {"NaN", "Infinity"}
              \/ last.a1.type \notin {"Decimal", "int", "float", "str"})
          => last.err = "PriceValidationError"

C26_ErrorPrecedence ==
    [][LET c == last'.self
           n == last'.a1
           q == last'.a2
       IN  /\ last'.op = "add_item"
              => last'.err =
                    IF ~ValidNameArg(n) THEN "ItemNameValidationError"
                    ELSE IF ~ValidQuantityArg(q) THEN "QuantityValidationError"
                    ELSE IF n.s \notin DOMAIN catalog THEN "ItemNotInCatalogError"
                    ELSE IF n.s \in DOMAIN carts[c]._items
                            /\ carts[c]._items[n.s] + q.n > 10000
                    THEN "QuantityValidationError"
                    ELSE "none"
           /\ last'.op = "update_item_quantity"
              => last'.err =
                    IF ~ValidNameArg(n) THEN "ItemNameValidationError"
                    ELSE IF ~ValidQuantityArg(q) THEN "QuantityValidationError"
                    ELSE IF n.s \notin DOMAIN carts[c]._items THEN "ItemNotInCartError"
                    ELSE "none"]_vars

\* add_item("Fake", 10001), a name that is not in the catalog with a
\* quantity above the maximum, raised QuantityValidationError
C26_Witness ==
    /\ last.op = "add_item"
    /\ last.a1 = PyStr(Fake)
    /\ last.a2 = PyInt(10001)
    /\ ~has_item(catalog, PyStr(Fake))
    /\ last.err = "QuantityValidationError"

C29_GuardScope ==
    [][last'.op = "__setattr__"
       => LET c == last'.self
              a == last'.attr
          IN  /\ (last'.err = "ImmutabilityViolationError")
                    <=> a \in {"_cart_id", "_customer_id"}
              /\ a \in {"_cart_id", "_customer_id"} => carts' = carts
              /\ a \in {"_items", "_catalog", "note"}
                 => /\ last'.err = "none"
                    /\ carts'[c][a] = last'.a2
                    /\ \A f \in DOMAIN carts[c] \ {a} : carts'[c][f] = carts[c][f]]_vars

\* cart._items = {"Hacked": 999} succeeded and the cart holds that mapping
C29_Witness ==
    /\ last.op = "__setattr__"
    /\ last.attr = "_items"
    /\ last.err = "none"
    /\ "cart1" \in DOMAIN carts
    /\ carts["cart1"]._items = (Hacked :> 999)

\* C30: in a cart that does not hold the catalog item n, add_item(n, q)
\* with a valid quantity q followed by remove_item(n) both succeed and leave
\* the item mapping and the total exactly as they were (an empty cart is
\* empty again with total 0.00).
C30_AddRemoveRoundTrip ==
    [][(/\ last'.op = "add_item; remove_item"
        /\ last'.a1.s \in DOMAIN catalog
        /\ last'.a1.s \notin DOMAIN carts[last'.self]._items
        /\ ValidQuantityArg(last'.a2))
       => LET c == last'.self
          IN  /\ last'.err = "none"
              /\ last'.twin = "none"
              /\ get_items(carts'[c]._items) = get_items(carts[c]._items)
              /\ get_total(carts'[c]._items, catalog') = get_total(carts[c]._items, catalog)
              /\ carts[c]._items = EmptyMap
                 => /\ carts'[c]._items = EmptyMap
                    /\ get_total(carts'[c]._items, catalog') = Dec(0, -2)]_vars

\* add_item("Widget", 10000); remove_item("Widget") succeeded on a cart
\* that holds 1 Gadget and no Widget
C30_Witness ==
    /\ last.op = "add_item; remove_item"
    /\ last.a1 = PyStr(Widget)
    /\ last.a2 = PyInt(10000)
    /\ last.err = "none"
    /\ last.twin = "none"
    /\ carts[last.self]._items = (Gadget :> 1)

====
